---- MODULE Spec2Model ----
(***************************************************************************)
(* Conversation state engine of the MCP tester client: the repair of a     *)
(* conversation (pruneAndFixConversation, src/src/utils.ts) and the        *)
(* context-window eviction of the ConversationManager                      *)
(* (src/unnamed/part_009).                                                 *)
(*                                                                         *)
(* A JavaScript string is a sequence of one-character strings, so that     *)
(* atob and btoa can be computed character by character.  A value that is  *)
(* either a string or an array carries its typeof tag.                     *)
(***************************************************************************)
EXTENDS Integers, Sequences, FiniteSets, TLC

VARIABLES
    conversation,     \* ConversationManager.conversation / the argument of pruneAndFixConversation
    pruned,           \* the array returned by the last call of pruneAndFixConversation
    pc,               \* position of the running operation
    currentTokens,    \* local currentTokens of ensureContextWindowLimit
    maxContextTokens, \* ConversationManager.maxContextTokens
    entry,            \* the conversation on entry to ensureContextWindowLimit
    maxNumberOfToolCallsPerQueryRound, \* ConversationManager.maxNumberOfToolCallsPerQueryRound
    toolCallCountRound,     \* argument toolCallCountRound of the running handleLLMResponse
    response,               \* content of the Message returned by the last completion call
    toolUseBlocks,          \* local toolUseBlocks of handleLLMResponse
    userToolResultsMessage, \* content of the local userToolResultsMessage of handleLLMResponse
    maxRetries,             \* argument maxRetries of createMessageWithRetry
    retryDelayMs,           \* argument retryDelayMs of createMessageWithRetry
    attempt,                \* loop variable attempt of createMessageWithRetry
    lastError,              \* local lastError of createMessageWithRetry
    thrown,                 \* the error a call has thrown to its caller
    emitted,                \* the calls of sseEmit, in call order
    called,                 \* the calls of client.callTool, in call order
    received,               \* the completion responses of the query, in order
    waited,                 \* the delays of the running createMessageWithRetry, in order
    created,                \* number of calls of messages.create in the query
    handlers,               \* the running request handlers of main.ts
    record,                 \* the key-value store record CONVERSATION_RECORD_NAME
    actorInput,             \* input of main.ts: the Actor input with the settings applied
    estimates,              \* what the count_tokens endpoint can answer for a conversation
    inFlight,               \* the ids of the tool_use blocks whose callTool has not settled
    browserClients,         \* main.ts browserClients: the ids of the connected SSE clients
    broadcasts,             \* how far the broadcastSSE of each call of sseEmit has come
    written                 \* what res.write has sent to each SSE client, by client id

limitVars == <<conversation, pruned, pc, currentTokens, maxContextTokens, entry>>

limitVarsButPc == <<conversation, pruned, currentTokens, maxContextTokens, entry>>

\* the state of a query: handleLLMResponse and createMessageWithRetry
loopVars == <<maxNumberOfToolCallsPerQueryRound, toolCallCountRound, response, toolUseBlocks,
              userToolResultsMessage, maxRetries, retryDelayMs, attempt, lastError, thrown,
              emitted, called, received, waited, created>>

\* the state of the hosting application (main.ts)
hostVars == <<handlers, record, actorInput>>

\* the surroundings of the manager: the token counting endpoint, the tool calls in
\* flight and the SSE layer of main.ts
envVars == <<estimates, inFlight, browserClients, broadcasts, written>>

vars == <<limitVars, loopVars, hostVars, envVars>>

-----------------------------------------------------------------------------
(* Bounds of the model *)

\* longest conversation drawn as an input of the repair
MaxLen == 3
\* most content blocks in one drawn conversation
MaxBlocks == 3
\* longest string drawn as a content of the redaction
MaxStrLen == 4
\* longest well-paired history drawn for the eviction
MaxHistory == 5
\* most content blocks in one conversation of the repair drawn for the eviction
MaxLimitBlocks == 2
\* largest limit of tool calls per query drawn for a query
MaxToolCalls == 1
\* most content blocks in one response of the completion service
MaxResponseBlocks == 2
\* largest argument maxRetries drawn for createMessageWithRetry
MaxRetries == 3

-----------------------------------------------------------------------------
(* JavaScript values *)

Undefined == "undefined"

Str(chars) == [typeof |-> "string", chars |-> chars]
Arr(items) == [typeof |-> "object", items |-> items]

Range(s) == {s[i] : i \in DOMAIN s}

-----------------------------------------------------------------------------
(* atob / btoa *)

B64Alphabet ==
    <<"A", "B", "C", "D", "E", "F", "G", "H", "I", "J", "K", "L", "M", "N", "O", "P", "Q", "R",
    "S", "T", "U", "V", "W", "X", "Y", "Z", "a", "b", "c", "d", "e", "f", "g", "h", "i", "j", "k",
    "l", "m", "n", "o", "p", "q", "r", "s", "t", "u", "v", "w", "x", "y", "z", "0", "1", "2", "3",
    "4", "5", "6", "7", "8", "9", "+", "/">>

B64Chars == Range(B64Alphabet)

B64Index(c) == (CHOOSE i \in DOMAIN B64Alphabet : B64Alphabet[i] = c) - 1

AsciiWhitespace == {" ", "\t", "\n", "\f", "\r"}

IsNotWhitespace(c) == c \notin AsciiWhitespace

\* forgiving-base64 decode, step 2: with a length divisible by 4, one or two
\* trailing "=" are removed
StripPadding(s) ==
    IF Len(s) % 4 = 0 /\ Len(s) > 0
    THEN IF s[Len(s)] = "=" /\ s[Len(s) - 1] = "="
         THEN SubSeq(s, 1, Len(s) - 2)
         ELSE IF s[Len(s)] = "=" THEN SubSeq(s, 1, Len(s) - 1) ELSE s
    ELSE s

RECURSIVE DecodeGroups(_)
DecodeGroups(s) ==
    IF Len(s) >= 4
    THEN LET n == B64Index(s[1]) * 262144 + B64Index(s[2]) * 4096
                  + B64Index(s[3]) * 64 + B64Index(s[4])
         IN  <<n \div 65536, (n \div 256) % 256, n % 256>> \o DecodeGroups(SubSeq(s, 5, Len(s)))
    ELSE IF Len(s) = 3
    THEN LET n == (B64Index(s[1]) * 4096 + B64Index(s[2]) * 64 + B64Index(s[3])) \div 4
         IN  <<n \div 256, n % 256>>
    ELSE IF Len(s) = 2
    THEN <<(B64Index(s[1]) * 64 + B64Index(s[2])) \div 16>>
    ELSE <<>>

\* atob(str): the decoded bytes, or a thrown InvalidCharacterError
atob(str) ==
    LET data == StripPadding(SelectSeq(str, IsNotWhitespace))
    IN  IF Len(data) % 4 = 1 \/ \E i \in DOMAIN data : data[i] \notin B64Chars
        THEN [threw |-> TRUE, bytes |-> <<>>]
        ELSE [threw |-> FALSE, bytes |-> DecodeGroups(data)]

RECURSIVE btoa(_)
btoa(bytes) ==
    IF Len(bytes) >= 3
    THEN LET n == bytes[1] * 65536 + bytes[2] * 256 + bytes[3]
         IN  <<B64Alphabet[(n \div 262144) + 1], B64Alphabet[((n \div 4096) % 64) + 1],
               B64Alphabet[((n \div 64) % 64) + 1], B64Alphabet[(n % 64) + 1]>>
             \o btoa(SubSeq(bytes, 4, Len(bytes)))
    ELSE IF Len(bytes) = 2
    THEN LET n == (bytes[1] * 256 + bytes[2]) * 4
         IN  <<B64Alphabet[(n \div 4096) + 1], B64Alphabet[((n \div 64) % 64) + 1],
               B64Alphabet[(n % 64) + 1], "=">>
    ELSE IF Len(bytes) = 1
    THEN LET n == bytes[1] * 16
         IN  <<B64Alphabet[(n \div 64) + 1], B64Alphabet[(n % 64) + 1], "=", "=">>
    ELSE <<>>

isBase64(str) ==
    IF str = <<>>
    THEN FALSE
    ELSE LET decoded == atob(str)
         IN  IF decoded.threw THEN FALSE ELSE btoa(decoded.bytes) = str

-----------------------------------------------------------------------------
(* Fixed strings *)

IMAGE_BASE64_PLACEHOLDER == <<"[", "b", "a", "s", "e", "6", "4", "]">>

TOOL_USE_WITHOUT_RESULT ==
    <<"[", "T", "o", "o", "l", " ", "u", "s", "e", " ", "w", "i", "t", "h", "o", "u", "t", " ",
    "r", "e", "s", "u", "l", "t", " ", "-", " ", "m", "o", "s", "t", " ", "l", "i", "k", "e", "l",
    "y", " ", "t", "o", "o", "l", " ", "f", "a", "i", "l", "e", "d", " ", "o", "r", " ", "r", "e",
    "s", "p", "o", "n", "s", "e", " ", "w", "a", "s", " ", "t", "o", "o", " ", "l", "a", "r", "g",
    "e", " ", "t", "o", " ", "b", "e", " ", "s", "e", "n", "t", " ", "t", "o", " ", "L", "L", "M",
    "]">>

UNKNOWN_TOOL == "unknown_tool"

EMPTY_INPUT == "{}"

-----------------------------------------------------------------------------
(* Content blocks and messages *)

TextBlock(text, cache_control, citations) ==
    [type |-> "text", text |-> text, cache_control |-> cache_control, citations |-> citations]

ToolUseBlock(id, name, input) ==
    [type |-> "tool_use", id |-> id, name |-> name, input |-> input]

ToolResultBlock(tool_use_id, content, is_error, cache_control) ==
    [type |-> "tool_result", tool_use_id |-> tool_use_id, content |-> content,
     is_error |-> is_error, cache_control |-> cache_control]

ImageBlock(data) ==
    [type |-> "image", source |-> [type |-> "base64", data |-> data]]

Message(role, content) == [role |-> role, content |-> content]

-----------------------------------------------------------------------------
(* A JavaScript Map: the entries in insertion order *)

MapHas(map, key) == \E i \in DOMAIN map : map[i].key = key

MapGet(map, key) == map[CHOOSE i \in DOMAIN map : map[i].key = key].value

MapSet(map, key, value) ==
    IF MapHas(map, key)
    THEN [i \in DOMAIN map |-> IF map[i].key = key THEN [key |-> key, value |-> value] ELSE map[i]]
    ELSE Append(map, [key |-> key, value |-> value])

MapKeys(map) == [i \in DOMAIN map |-> map[i].key]

\* splice(start, 1, item): the item takes the place of the element at start
SpliceOver(array, start, item) ==
    SubSeq(array, 1, start) \o <<item>> \o SubSeq(array, start + 2, Len(array))

\* Array.prototype.splice(start, 0, item), start counted from 0
Splice(array, start, item) ==
    SubSeq(array, 1, start) \o <<item>> \o SubSeq(array, start + 1, Len(array))

-----------------------------------------------------------------------------
(* pruneAndFixConversation, first pass: prune base64 content, collect ids *)

\* the placeholder in a block that has none of the optional fields of the original
PruneBlockWithoutOptionalFields(block) ==
    IF block.type = "text" /\ isBase64(block.text)
    THEN TextBlock(IMAGE_BASE64_PLACEHOLDER, Undefined, Undefined)
    ELSE IF block.type = "tool_result" /\ block.content.typeof = "string"
            /\ isBase64(block.content.chars)
    THEN ToolResultBlock(block.tool_use_id, Str(IMAGE_BASE64_PLACEHOLDER), "false", Undefined)
    ELSE block

PruneBlock(block) ==
    IF block.type = "text" /\ isBase64(block.text)
    THEN TextBlock(IMAGE_BASE64_PLACEHOLDER, block.cache_control, block.citations)
    ELSE IF block.type = "tool_use"
    THEN block
    ELSE IF block.type = "tool_result" /\ block.content.typeof = "string"
            /\ isBase64(block.content.chars)
    THEN ToolResultBlock(block.tool_use_id, Str(IMAGE_BASE64_PLACEHOLDER),
                         block.is_error, block.cache_control)
    ELSE block

PruneMessage(message) ==
    IF message.content.typeof = "string"
    THEN [message EXCEPT !.content =
              IF isBase64(message.content.chars) THEN Str(IMAGE_BASE64_PLACEHOLDER)
                                                 ELSE message.content]
    ELSE Message(message.role,
                 Arr([i \in DOMAIN message.content.items |-> PruneBlock(message.content.items[i])]))

\* toolUseMap / toolResultMap after the blocks of message m (counted from 0)
RECURSIVE CollectBlocks(_, _, _)
CollectBlocks(maps, blocks, m) ==
    IF blocks = <<>>
    THEN maps
    ELSE LET block == Head(blocks)
             next == IF block.type = "tool_use"
                     THEN [maps EXCEPT !.toolUseMap = MapSet(@, block.id, m)]
                     ELSE IF block.type = "tool_result"
                     THEN [maps EXCEPT !.toolResultMap = MapSet(@, block.tool_use_id, m)]
                     ELSE maps
         IN  CollectBlocks(next, Tail(blocks), m)

RECURSIVE CollectIds(_, _, _)
CollectIds(maps, conv, m) ==
    IF m >= Len(conv)
    THEN maps
    ELSE LET message == conv[m + 1]
         IN  IF message.content.typeof = "string"
             THEN CollectIds(maps, conv, m + 1)
             ELSE CollectIds(CollectBlocks(maps, message.content.items, m), conv, m + 1)

FirstPass(conv) ==
    [prunedAndFixedConversation |-> [i \in DOMAIN conv |-> PruneMessage(conv[i])],
     maps |-> CollectIds([toolUseMap |-> <<>>, toolResultMap |-> <<>>], conv, 0)]

-----------------------------------------------------------------------------
(* pruneAndFixConversation, second part: find and repair unpaired blocks *)

\* the keys of map that otherMap does not have, in the order of map
KeysWithout(map, otherMap) ==
    LET Missing(key) == ~MapHas(otherMap, key)
    IN  SelectSeq(MapKeys(map), Missing)

\* the repair that finds no tool_result without its tool_use
toolResultBlocksAllWithUse(maps) == <<>>

toolResultBlocksWithoutUse(maps) == KeysWithout(maps.toolResultMap, maps.toolUseMap)

toolUseBlocksWithoutResult(maps) == KeysWithout(maps.toolUseMap, maps.toolResultMap)

\* Map<number, string[]>: the ids grouped by the message index their map holds
RECURSIVE GroupByMessage(_, _, _)
GroupByMessage(groups, ids, map) ==
    IF ids = <<>>
    THEN groups
    ELSE LET id == Head(ids)
             messageIndex == MapGet(map, id)
             existingIds == IF MapHas(groups, messageIndex) THEN MapGet(groups, messageIndex)
                                                            ELSE <<>>
         IN  GroupByMessage(MapSet(groups, messageIndex, Append(existingIds, id)), Tail(ids), map)

\* a dummy message that names only the first of the orphaned ids
DummyToolUseMessageFirstIdOnly(blockIDs) ==
    Message("assistant", Arr(<<ToolUseBlock(blockIDs[1], UNKNOWN_TOOL, EMPTY_INPUT)>>))

DummyToolUseMessage(blockIDs) ==
    Message("assistant",
            Arr([i \in DOMAIN blockIDs |-> ToolUseBlock(blockIDs[i], UNKNOWN_TOOL, EMPTY_INPUT)]))

DummyToolResultBlock(toolUseId) ==
    [type |-> "tool_result", tool_use_id |-> toolUseId, content |-> Str(TOOL_USE_WITHOUT_RESULT),
     is_error |-> Undefined, cache_control |-> Undefined]

DummyToolResultMessage(blockIDs) ==
    Message("user", Arr([i \in DOMAIN blockIDs |-> DummyToolResultBlock(blockIDs[i])]))

\* the last-message test off by one: no index is the last one
IsLastMessageOffByOne(array, m) == m = Len(array)

\* the test that skips the dummy tool_result of the last message
IsLastMessage(array, m) == m = Len(array) - 1

\* the loop "for (m = length - 1; m >= 0; m--)" from index m downwards
RECURSIVE InsertDummies(_, _, _, _)
InsertDummies(array, m, toolResultMessagesWithoutUse, toolUseMessagesWithoutResult) ==
    IF m < 0
    THEN array
    ELSE IF MapHas(toolResultMessagesWithoutUse, m)
    THEN InsertDummies(Splice(array, m, DummyToolUseMessage(MapGet(toolResultMessagesWithoutUse, m))),
                       m - 1, toolResultMessagesWithoutUse, toolUseMessagesWithoutResult)
    ELSE IF MapHas(toolUseMessagesWithoutResult, m)
    THEN IF IsLastMessage(array, m)
         THEN InsertDummies(array, m - 1, toolResultMessagesWithoutUse, toolUseMessagesWithoutResult)
         ELSE InsertDummies(Splice(array, m + 1,
                                   DummyToolResultMessage(MapGet(toolUseMessagesWithoutResult, m))),
                            m - 1, toolResultMessagesWithoutUse, toolUseMessagesWithoutResult)
    ELSE InsertDummies(array, m - 1, toolResultMessagesWithoutUse, toolUseMessagesWithoutResult)

\* the conversation returned as it is
pruneAndFixNothing(conv) == conv

pruneAndFixConversation(conv) ==
    LET first == FirstPass(conv)
        withoutUse == toolResultBlocksWithoutUse(first.maps)
        withoutResult == toolUseBlocksWithoutResult(first.maps)
    IN  IF withoutUse = <<>> /\ withoutResult = <<>>
        THEN first.prunedAndFixedConversation
        ELSE InsertDummies(first.prunedAndFixedConversation,
                           Len(first.prunedAndFixedConversation) - 1,
                           GroupByMessage(<<>>, withoutUse, first.maps.toolResultMap),
                           GroupByMessage(<<>>, withoutResult, first.maps.toolUseMap))

-----------------------------------------------------------------------------
(* ConversationManager: constants and constructor *)

DEFAULT_MAX_CONTEXT_TOKENS == 200000

MIN_CONVERSATION_LENGTH == 2

\* Math.floor(maxContextTokens * CONTEXT_TOKEN_SAFETY_MARGIN), the margin being 0.99
WithSafetyMargin(tokens) == (tokens * 99) \div 100

-----------------------------------------------------------------------------
(* Inputs of the repair: every conversation of at most MaxLen messages and   *)
(* at most MaxBlocks content blocks over two tool ids                       *)

Roles == {"user", "assistant"}

RepairIds == {"a", "b"}

PlainText == <<"h", "i">>

Base64Text == <<"a", "G", "k", "=">>

RepairBlocks ==
    {ToolUseBlock(id, "tool", EMPTY_INPUT) : id \in RepairIds}
    \cup {ToolResultBlock(id, Str(PlainText), "false", Undefined) : id \in RepairIds}
    \cup {TextBlock(PlainText, Undefined, Undefined)}

RECURSIVE Sum(_, _)
Sum(counts, upTo) == IF upTo = 0 THEN 0 ELSE counts[upTo] + Sum(counts, upTo - 1)

\* the conversation whose message i has role roles[i] and holds the counts[i]
\* next blocks of the list blocks, or the string texts[i] when counts[i] = 0
Assemble(roles, counts, blocks, texts) ==
    [i \in DOMAIN counts |->
        IF counts[i] = 0
        THEN Message(roles[i], Str(texts[i]))
        ELSE Message(roles[i], Arr(SubSeq(blocks, Sum(counts, i - 1) + 1, Sum(counts, i))))]

DrawConversation(value, maxLen, maxBlocks) ==
    \E len \in 0..maxLen :
        \E counts \in [1..len -> 0..maxBlocks] :
            /\ Sum(counts, len) <= maxBlocks
            /\ \E roles \in [1..len -> Roles] :
                   \E blocks \in [1..Sum(counts, len) -> RepairBlocks] :
                       \E texts \in [{i \in 1..len : counts[i] = 0} -> {PlainText, Base64Text}] :
                           value = Assemble(roles, counts, blocks, texts)

DrawRepairInput(value) == DrawConversation(value, MaxLen, MaxBlocks)

-----------------------------------------------------------------------------
(* Inputs of the redaction: a message that holds one string of at most      *)
(* MaxStrLen characters, in each place a conversation can hold a string,     *)
(* after a message whose tool_use pairs the tool_result                      *)

RedactAlphabet == {"a", "G", "k", "=", " ", "["}

RedactMessages(text) ==
    {Message("user", Str(text)),
     Message("assistant", Arr(<<TextBlock(text, "ephemeral", "cited")>>)),
     Message("user", Arr(<<ToolResultBlock("a", Str(text), "true", "ephemeral")>>)),
     Message("user", Arr(<<ToolResultBlock("a", Arr(<<TextBlock(text, Undefined, Undefined)>>),
                                           "false", Undefined)>>)),
     Message("user", Arr(<<ImageBlock(text)>>)),
     Message("user", Arr(<<TextBlock(PlainText, Undefined, Undefined),
                           ToolResultBlock("a", Str(text), "true", "ephemeral"),
                           TextBlock(text, "ephemeral", "cited")>>))}

DrawRedactInput(value) ==
    \E len \in 0..MaxStrLen :
        \E text \in [1..len -> RedactAlphabet] :
            \E message \in RedactMessages(SubSeq(text, 1, len)) :
                value = <<Message("assistant", Arr(<<ToolUseBlock("a", "tool", EMPTY_INPUT)>>)),
                          message>>

-----------------------------------------------------------------------------
(* The manager and its host outside a query *)

\* the value null of a local that holds no error
Null == [typeof |-> "null"]

\* default of the input maxNumberOfToolCallsPerQuery
DEFAULT_MAX_TOOL_CALLS == 10

\* defaults of the arguments of createMessageWithRetry
DEFAULT_MAX_RETRIES == 3
DEFAULT_RETRY_DELAY_MS == 2000

\* no query has run: the locals of handleLLMResponse and createMessageWithRetry are unset
InitLocals ==
    /\ toolCallCountRound = 0
    /\ response = <<>>
    /\ toolUseBlocks = <<>>
    /\ userToolResultsMessage = <<>>
    /\ attempt = 0
    /\ lastError = Null
    /\ thrown = Null
    /\ emitted = <<>>
    /\ called = <<>>
    /\ received = <<>>
    /\ waited = <<>>
    /\ created = 0

\* the manager as main.ts constructs it, createMessageWithRetry called with its defaults
InitLoop ==
    /\ maxNumberOfToolCallsPerQueryRound = DEFAULT_MAX_TOOL_CALLS
    /\ maxRetries = DEFAULT_MAX_RETRIES
    /\ retryDelayMs = DEFAULT_RETRY_DELAY_MS
    /\ InitLocals

\* no browser is connected and sseEmit has not been called
InitSSE ==
    /\ browserClients = {}
    /\ broadcasts = <<>>
    /\ written = <<>>

\* no request is being handled and nothing is persisted
InitHost ==
    /\ handlers = <<>>
    /\ record = <<>>
    /\ actorInput = [llmProviderBaseUrl |-> Undefined]

-----
(* The repair as an operation: one call of pruneAndFixConversation *)

InitCall ==
    /\ pruned = <<>>
    /\ pc = "call"
    /\ currentTokens = 0
    /\ maxContextTokens = WithSafetyMargin(DEFAULT_MAX_CONTEXT_TOKENS)
    /\ entry = <<>>
    /\ InitLoop
    /\ InitHost
    /\ estimates = {}
    /\ inFlight = {}
    /\ InitSSE

InitRepair == DrawRepairInput(conversation) /\ InitCall

InitRedact == DrawRedactInput(conversation) /\ InitCall

PruneAndFix ==
    /\ pc = "call"
    /\ pruned' = pruneAndFixConversation(conversation)
    /\ pc' = "returned"
    /\ UNCHANGED <<conversation, currentTokens, maxContextTokens, entry>>
    /\ UNCHANGED <<loopVars, hostVars, envVars>>

NextRepair == PruneAndFix

SpecRepair == InitRepair /\ [][NextRepair]_vars

SpecRedact == InitRedact /\ [][NextRepair]_vars

-----------------------------------------------------------------------------
(* Inputs of the eviction: the conversations of the repair with at most     *)
(* MaxLimitBlocks blocks, and the well-paired histories of at most          *)
(* MaxHistory messages over three tool ids: every id is absent, or used in  *)
(* one message and answered in a later one; a message without tool block is *)
(* a user string                                                            *)

HistoryIds == <<"a", "b", "c">>

\* where an id is used and answered: <<0, 0>> when absent
Placements(len) == {<<0, 0>>} \cup {place \in (1..len) \X (1..len) : place[1] < place[2]}

HistoryMessage(places, i) ==
    LET UsedHere(n) == places[n][1] = i
        AnsweredHere(n) == places[n][2] = i
        used == SelectSeq([n \in DOMAIN HistoryIds |-> n], UsedHere)
        answered == SelectSeq([n \in DOMAIN HistoryIds |-> n], AnsweredHere)
        uses == [n \in DOMAIN used |-> ToolUseBlock(HistoryIds[used[n]], "tool", EMPTY_INPUT)]
        results == [n \in DOMAIN answered |->
                       ToolResultBlock(HistoryIds[answered[n]], Str(PlainText), "false", Undefined)]
    IN  IF used = <<>> /\ answered = <<>>
        THEN Message("user", Str(PlainText))
        ELSE Message(IF used # <<>> THEN "assistant" ELSE "user", Arr(uses \o results))

DrawHistory(value) ==
    \E len \in 0..MaxHistory :
        \E places \in [DOMAIN HistoryIds -> Placements(len)] :
            value = [i \in 1..len |-> HistoryMessage(places, i)]

-----------------------------------------------------------------------------
(* ConversationManager.createMessageWithRetry up to the completion call:    *)
(* the repair, then ensureContextWindowLimit                                *)

\* countTokens returns Infinity when the request fails: a count above every other
Infinity == 1000000000

MaxContextTokensArgs == {100, DEFAULT_MAX_CONTEXT_TOKENS}

\* what countTokens can return for the messages: 0 without messages, else the
\* input_tokens of the response or, when the request fails, Infinity
countTokens(messages) ==
    IF Len(messages) = 0
    THEN {0}
    ELSE estimates

\* the answers around the limit: within it, at it, just above it, and a failure
EstimatesAroundLimit(limit) == {0, limit, limit + 1, Infinity}

\* the answers far from the limit: within it, and a failure
EstimatesFarFromLimit == {0, Infinity}

InitLimit ==
    /\ DrawConversation(conversation, MaxLen, MaxLimitBlocks) \/ DrawHistory(conversation)
    /\ pruned = <<>>
    /\ pc = "createMessageWithRetry"
    /\ currentTokens = 0
    /\ maxContextTokens \in {WithSafetyMargin(arg) : arg \in MaxContextTokensArgs}
    /\ entry = <<>>
    /\ InitLoop
    /\ InitHost
    /\ estimates = EstimatesAroundLimit(maxContextTokens)
    /\ inFlight = {}
    /\ InitSSE

\* createMessageWithRetry: the repair before the context window check
RepairBeforeCall ==
    /\ pc = "createMessageWithRetry"
    /\ conversation' = pruneAndFixConversation(conversation)
    /\ entry' = conversation'
    /\ pc' = "ensureContextWindowLimit"
    /\ UNCHANGED <<pruned, currentTokens, maxContextTokens>>
    /\ UNCHANGED <<loopVars, hostVars, envVars>>

\* the test of the first return with the minimum length itself counted as above it
BelowMinimumLength == Len(conversation) < MIN_CONVERSATION_LENGTH

\* the test of the first return
WithinMinimumLength == Len(conversation) <= MIN_CONVERSATION_LENGTH

\* ensureContextWindowLimit: return at once with at most MIN_CONVERSATION_LENGTH messages
EnsureEntry ==
    /\ pc = "ensureContextWindowLimit"
    /\ pc' = IF WithinMinimumLength THEN "ensured" ELSE "countFirst"
    /\ UNCHANGED <<conversation, pruned, currentTokens, maxContextTokens, entry>>
    /\ UNCHANGED <<loopVars, hostVars, envVars>>

\* the first count: return when it is within the limit
CountFirst ==
    /\ pc = "countFirst"
    /\ \E tokens \in countTokens(conversation) :
           /\ currentTokens' = tokens
           /\ pc' = IF tokens <= maxContextTokens THEN "ensured" ELSE "while"
    /\ UNCHANGED <<conversation, pruned, maxContextTokens, entry>>
    /\ UNCHANGED <<loopVars, hostVars, envVars>>

\* the loop condition with the limit itself counted as over the limit
OverLimitAtTheLimit ==
    currentTokens >= maxContextTokens /\ Len(conversation) > MIN_CONVERSATION_LENGTH

\* the condition of the while loop
OverLimit == currentTokens > maxContextTokens /\ Len(conversation) > MIN_CONVERSATION_LENGTH

\* Array.prototype.pop in the place of shift: the array without its last element
Pop(array) == IF array = <<>> THEN <<>> ELSE SubSeq(array, 1, Len(array) - 1)

\* the shift that removes nothing
ShiftNothing(array) == array

\* Array.prototype.shift: the array without its first element
Shift(array) == IF array = <<>> THEN <<>> ELSE Tail(array)

\* one round of the loop up to the count: two shifts and the repair
Evict ==
    /\ pc = "while"
    /\ OverLimit
    /\ conversation' = pruneAndFixConversation(Shift(Shift(conversation)))
    /\ pc' = "countAgain"
    /\ UNCHANGED <<pruned, currentTokens, maxContextTokens, entry>>
    /\ UNCHANGED <<loopVars, hostVars, envVars>>

\* the count that ends a round of the loop
CountAgain ==
    /\ pc = "countAgain"
    /\ \E tokens \in countTokens(conversation) : currentTokens' = tokens
    /\ pc' = "while"
    /\ UNCHANGED <<conversation, pruned, maxContextTokens, entry>>
    /\ UNCHANGED <<loopVars, hostVars, envVars>>

\* the end of the loop: the repair as a safety net, and the return
FinalRepair ==
    /\ pc = "while"
    /\ ~OverLimit
    /\ conversation' = pruneAndFixConversation(conversation)
    /\ pc' = "ensured"
    /\ UNCHANGED <<pruned, currentTokens, maxContextTokens, entry>>
    /\ UNCHANGED <<loopVars, hostVars, envVars>>

NextLimit == RepairBeforeCall \/ EnsureEntry \/ CountFirst \/ Evict \/ CountAgain \/ FinalRepair

SpecLimit == InitLimit /\ [][NextLimit]_vars

-----------------------------------------------------------------------------
(* Reading a conversation *)

Items(message) == IF message.content.typeof = "string" THEN <<>> ELSE message.content.items

\* the ids of the blocks of the given type in a message, in block order
IdOf(block) == IF block.type = "tool_use" THEN block.id ELSE block.tool_use_id

BlocksOfType(message, type) ==
    LET HasType(block) == block.type = type
    IN  SelectSeq(Items(message), HasType)

IdsAt(conv, i, type) == {IdOf(block) : block \in Range(BlocksOfType(conv[i], type))}

IdsIn(conv, type) == UNION {IdsAt(conv, i, type) : i \in DOMAIN conv}

\* how many blocks of the given type carry the id
Occurrences(conv, type, id) ==
    Cardinality({<<i, j>> \in (DOMAIN conv) \X (1..MaxBlocks + 1) :
                    /\ j \in DOMAIN Items(conv[i])
                    /\ Items(conv[i])[j].type = type
                    /\ IdOf(Items(conv[i])[j]) = id})

\* the distinct ids of the blocks of a type in message i that no block of
\* the other type carries anywhere in the conversation, by first appearance
RECURSIVE Distinct(_)
Distinct(ids) ==
    IF ids = <<>>
    THEN <<>>
    ELSE LET front == Distinct(SubSeq(ids, 1, Len(ids) - 1))
         IN  IF ids[Len(ids)] \in Range(front) THEN front ELSE Append(front, ids[Len(ids)])

UnpairedIdsAt(conv, i, type, otherType) ==
    LET blocks == BlocksOfType(conv[i], type)
        Unpaired(id) == id \notin IdsIn(conv, otherType)
    IN  Distinct(SelectSeq([j \in DOMAIN blocks |-> IdOf(blocks[j])], Unpaired))

OrphanedResultIdsAt(conv, i) == UnpairedIdsAt(conv, i, "tool_result", "tool_use")

OrphanedUseIdsAt(conv, i) == UnpairedIdsAt(conv, i, "tool_use", "tool_result")

\* a block, or a message, and what the redaction may have made of it
BlockUpToRedaction(block, after) ==
    \/ after = block
    \/ block.type = "text" /\ after = [block EXCEPT !.text = IMAGE_BASE64_PLACEHOLDER]
    \/ block.type = "tool_result" /\ after = [block EXCEPT !.content = Str(IMAGE_BASE64_PLACEHOLDER)]

MessageUpToRedaction(message, after) ==
    /\ after.role = message.role
    /\ after.content.typeof = message.content.typeof
    /\ IF message.content.typeof = "string"
       THEN after.content \in {message.content, Str(IMAGE_BASE64_PLACEHOLDER)}
       ELSE /\ Len(after.content.items) = Len(message.content.items)
            /\ \A j \in DOMAIN message.content.items :
                   BlockUpToRedaction(message.content.items[j], after.content.items[j])

Returned == pc = "returned"

-----------------------------------------------------------------------------
(* C1: repairing a repaired conversation changes nothing:                   *)
(* pruneAndFixConversation(pruneAndFixConversation(C)) is                   *)
(* pruneAndFixConversation(C), for every conversation C.                    *)

RepairIdempotent == Returned => pruneAndFixConversation(pruned) = pruned

(* C2: in the repaired conversation every tool_use block outside the last   *)
(* message has exactly one tool_result block with its id, and that block is *)
(* in a later message.                                                      *)

PairingAfterRepair ==
    Returned =>
        \A i \in 1..(Len(pruned) - 1) :
            \A id \in IdsAt(pruned, i, "tool_use") :
                /\ Occurrences(pruned, "tool_result", id) = 1
                /\ \E k \in (i + 1)..Len(pruned) : id \in IdsAt(pruned, k, "tool_result")

(* C3: in the repaired conversation the tool_use_id of every tool_result    *)
(* block is the id of a tool_use block of the repaired conversation.        *)

ResultsReferToUses == Returned => IdsIn(pruned, "tool_result") \subseteq IdsIn(pruned, "tool_use")

\* the repair met a tool_result without tool_use, in the first message too
ResultsReferToUsesWitness ==
    /\ Returned
    /\ Len(conversation) >= 2
    /\ OrphanedResultIdsAt(conversation, 1) # <<>>
    /\ Len(OrphanedResultIdsAt(conversation, 2)) = 2

(* C4: when the only unpaired blocks of C are tool_use blocks of its last   *)
(* message, the repair adds nothing: the result has the length of C and     *)
(* message i of the result is message i of C (its base64 content replaced   *)
(* by the placeholder).                                                     *)

OnlyLastUsesUnpaired(conv) ==
    /\ \A i \in DOMAIN conv : OrphanedResultIdsAt(conv, i) = <<>>
    /\ \A i \in 1..(Len(conv) - 1) : OrphanedUseIdsAt(conv, i) = <<>>

LastUsesLeftUnresolved ==
    Returned /\ OnlyLastUsesUnpaired(conversation) =>
        /\ Len(pruned) = Len(conversation)
        /\ \A i \in DOMAIN conversation : MessageUpToRedaction(conversation[i], pruned[i])

\* the repair met a last message with two tool_use blocks without result
LastUsesLeftUnresolvedWitness ==
    /\ Returned
    /\ OnlyLastUsesUnpaired(conversation)
    /\ Len(conversation) >= 2
    /\ Len(OrphanedUseIdsAt(conversation, Len(conversation))) = 2

(* C5: before every message of C that holds tool_result blocks whose ids    *)
(* no tool_use of C carries, the repair inserts one assistant message (at   *)
(* index 0 for the first message) with one tool_use block per orphaned id,  *)
(* named unknown_tool with empty input, in the order of the results in the  *)
(* message; the length grows by one per such message.                       *)

ExpectedDummyToolUse(ids) ==
    Message("assistant", Arr([n \in DOMAIN ids |-> ToolUseBlock(ids[n], "unknown_tool", "{}")]))

IsDummyToolResultMessage(message) ==
    /\ Items(message) # <<>>
    /\ \A j \in DOMAIN Items(message) :
           /\ Items(message)[j].type = "tool_result"
           /\ Items(message)[j].content = Str(TOOL_USE_WITHOUT_RESULT)

OrphanedResultsGetDummyUse ==
    Returned =>
        LET holders == {i \in DOMAIN conversation : OrphanedResultIdsAt(conversation, i) # <<>>}
            dummyResults == {k \in DOMAIN pruned : IsDummyToolResultMessage(pruned[k])}
        IN  /\ \A i \in holders :
                   \E k \in 2..Len(pruned) :
                       /\ i = 1 => k = 2
                       /\ MessageUpToRedaction(conversation[i], pruned[k])
                       /\ pruned[k - 1] = ExpectedDummyToolUse(OrphanedResultIdsAt(conversation, i))
            /\ Len(pruned) = Len(conversation) + Cardinality(holders) + Cardinality(dummyResults)

(* C6: after every message of C but the last that holds tool_use blocks     *)
(* whose ids no tool_result of C carries, the repair inserts one user       *)
(* message with one tool_result block per such id and the fixed content,    *)
(* also when other messages of C hold orphaned tool_result blocks.          *)

ExpectedDummyToolResult(ids) ==
    Message("user",
            Arr([n \in DOMAIN ids |->
                    [type |-> "tool_result", tool_use_id |-> ids[n],
                     content |-> Str(TOOL_USE_WITHOUT_RESULT),
                     is_error |-> Undefined, cache_control |-> Undefined]]))

OrphanedUsesGetDummyResult ==
    Returned =>
        \A i \in 1..(Len(conversation) - 1) :
            OrphanedUseIdsAt(conversation, i) # <<>> =>
                \E k \in 1..(Len(pruned) - 1) :
                    /\ MessageUpToRedaction(conversation[i], pruned[k])
                    /\ pruned[k + 1] = ExpectedDummyToolResult(OrphanedUseIdsAt(conversation, i))

(* C7: the repair replaces by the placeholder every string held by a block  *)
(* of any type, or by a string message, that decodes and re-encodes to      *)
(* itself, returns every other string as it was, and keeps the number of    *)
(* messages.                                                                *)

RECURSIVE Flatten(_)
Flatten(seqs) == IF seqs = <<>> THEN <<>> ELSE Head(seqs) \o Flatten(Tail(seqs))

\* the strings a block holds as its content
NestedStrings(block) ==
    IF block.type = "text" THEN <<block.text>>
    ELSE IF block.type = "image" THEN <<block.source.data>>
    ELSE <<>>

BlockStrings(block) ==
    IF block.type = "tool_result"
    THEN IF block.content.typeof = "string"
         THEN <<block.content.chars>>
         ELSE Flatten([j \in DOMAIN block.content.items |-> NestedStrings(block.content.items[j])])
    ELSE NestedStrings(block)

MessageStrings(message) ==
    IF message.content.typeof = "string"
    THEN <<message.content.chars>>
    ELSE Flatten([j \in DOMAIN message.content.items |-> BlockStrings(message.content.items[j])])

Base64ReplacedEverywhere ==
    Returned =>
        /\ Len(pruned) = Len(conversation)
        /\ \A i \in DOMAIN conversation :
               LET before == MessageStrings(conversation[i])
                   after == MessageStrings(pruned[i])
               IN  /\ Len(after) = Len(before)
                   /\ \A n \in DOMAIN before :
                          after[n] = IF isBase64(before[n]) THEN IMAGE_BASE64_PLACEHOLDER
                                                            ELSE before[n]

-----------------------------------------------------------------------------
Ensured == pc = "ensured"

(* C8: ensureContextWindowLimit never returns with more messages than the   *)
(* conversation had on entry, whatever the conversation and the token       *)
(* counts.                                                                  *)

NeverMoreMessages == Ensured => Len(conversation) <= Len(entry)

(* C9: ensureContextWindowLimit entered with at least 2 messages returns    *)
(* with at least 2 messages.                                                *)

NeverBelowMinimum == Ensured /\ Len(entry) >= 2 => Len(conversation) >= 2

(* C10: ensureContextWindowLimit removes the two oldest messages while, and *)
(* only while, the last token count exceeds floor(maxContextTokens * 0.99)  *)
(* (99 for 100) and more than 2 messages remain; it returns with the last   *)
(* count within that limit or with at most 2 messages.                      *)

EvictsWhileOverLimit ==
    /\ [][/\ pc = "while" /\ currentTokens > maxContextTokens /\ Len(conversation) > 2
             => /\ pc' = "countAgain"
                /\ conversation' =
                       pruneAndFixConversation(SubSeq(conversation, 3, Len(conversation)))
          /\ pc' = "countAgain"
             => pc = "while" /\ currentTokens > maxContextTokens /\ Len(conversation) > 2
          /\ pc' # "countAgain" => Len(conversation') >= Len(conversation)]_vars
    /\ [](Ensured => currentTokens <= maxContextTokens \/ Len(conversation) <= 2)
    /\ [](maxContextTokens \in {99, 198000})

\* two messages were removed and the next count was within the limit of 99,
\* so the loop stopped with more than 2 messages
EvictsWhileOverLimitWitness ==
    /\ Ensured
    /\ maxContextTokens = 99
    /\ Len(entry) = 5
    /\ Len(conversation) = 3
    /\ currentTokens = 99

-----------------------------------------------------------------------------
(* JavaScript strings and errors of the query loop *)

\* String.prototype.includes
Includes(str, searchString) ==
    \E i \in 1..(Len(str) - Len(searchString) + 1) :
        SubSeq(str, i, i + Len(searchString) - 1) = searchString

Digits == <<"0", "1", "2", "3", "4", "5", "6", "7", "8", "9">>

\* a non-negative number in a template literal
RECURSIVE NumberChars(_)
NumberChars(n) ==
    IF n < 10 THEN <<Digits[n + 1]>> ELSE NumberChars(n \div 10) \o <<Digits[(n % 10) + 1]>>

\* Array.prototype.join
RECURSIVE Join(_, _)
Join(strings, separator) ==
    IF strings = <<>> THEN <<>>
    ELSE IF Len(strings) = 1 THEN strings[1]
    ELSE strings[1] \o separator \o Join(Tail(strings), separator)

\* an instance of Error, and a thrown value that is no Error
Error(name, message) ==
    [typeof |-> "object", instanceofError |-> TRUE, name |-> name, message |-> message]
NotAnError(chars) == [typeof |-> "string", instanceofError |-> FALSE, chars |-> chars]

\* String(error), also the conversion of an error in a template literal
String(error) ==
    IF error.instanceofError THEN error.name \o <<":", " ">> \o error.message ELSE error.chars

ERROR_NAME == <<"E","r","r","o","r">>

\* the message of handleLLMResponse when the limit of tool calls is hit
TOO_MANY_TOOL_CALLS_PREFIX ==
    <<"T","o","o"," ","m","a","n","y"," ","t","o","o","l"," ","c","a","l","l","s"," ","i","n",
      " ","a"," ","s","i","n","g","l","e"," ","t","u","r","n","!"," ","T","h","i","s"," ","h",
      "a","s"," ","b","e","e","n"," ","i","m","p","l","e","m","e","n","t","e","d"," ","t","o",
      " ","p","r","e","v","e","n","t"," ","i","n","f","i","n","i","t","e"," ","l","o","o","p",
      "s",".","\n","L","i","m","i","t"," ","i","s"," ">>
TOO_MANY_TOOL_CALLS_SUFFIX ==
    <<".","\n","Y","o","u"," ","c","a","n"," ","i","n","c","r","e","a","s","e"," ","t","h","e",
      " ","l","i","m","i","t"," ","b","y"," ","s","e","t","t","i","n","g"," ","t","h","e"," ",
      "\"","m","a","x","N","u","m","b","e","r","O","f","T","o","o","l","C","a","l","l","s","P",
      "e","r","Q","u","e","r","y","\""," ","p","a","r","a","m","e","t","e","r",".">>
TooManyToolCalls(limit) ==
    TOO_MANY_TOOL_CALLS_PREFIX \o NumberChars(limit) \o TOO_MANY_TOOL_CALLS_SUFFIX

\* the messages of createMessageWithRetry when the retries are exhausted
RATE_LIMIT_PREFIX ==
    <<"R","a","t","e"," ","l","i","m","i","t"," ","e","x","c","e","e","d","e","d"," ","a","f",
      "t","e","r"," ">>
RATE_LIMIT_SUFFIX ==
    <<" ","a","t","t","e","m","p","t","s","."," ","P","l","e","a","s","e"," ","t","r","y"," ",
      "a","g","a","i","n"," ","i","n"," ","a"," ","f","e","w"," ","m","i","n","u","t","e","s",
      " ","o","r"," ","c","o","n","s","i","d","e","r"," ","s","w","i","t","c","h","i","n","g",
      " ","t","o"," ","a"," ","d","i","f","f","e","r","e","n","t"," ","m","o","d","e","l">>
RateLimitExceeded(retries) == RATE_LIMIT_PREFIX \o NumberChars(retries) \o RATE_LIMIT_SUFFIX
SERVER_OVERLOAD ==
    <<"S","e","r","v","e","r"," ","i","s"," ","c","u","r","r","e","n","t","l","y"," ","e","x",
      "p","e","r","i","e","n","c","i","n","g"," ","h","i","g","h"," ","l","o","a","d","."," ",
      "P","l","e","a","s","e"," ","t","r","y"," ","a","g","a","i","n"," ","i","n"," ","a"," ",
      "f","e","w"," ","m","o","m","e","n","t","s"," ","o","r"," ","c","o","n","s","i","d","e",
      "r"," ","s","w","i","t","c","h","i","n","g"," ","t","o"," ","a"," ","d","i","f","f","e",
      "r","e","n","t"," ","m","o","d","e","l",".">>
UNKNOWN_ERROR_AFTER_RETRIES ==
    <<"U","n","k","n","o","w","n"," ","e","r","r","o","r"," ","a","f","t","e","r"," ","r","e",
      "t","r","i","e","s"," ","i","n"," ","c","r","e","a","t","e","M","e","s","s","a","g","e",
      "W","i","t","h","R","e","t","r","y">>

\* the contents of a tool result that holds no result of the tool
NO_RESULTS_PREFIX ==
    <<"N","o"," ","r","e","s","u","l","t","s"," ","r","e","t","r","i","e","v","e","d"," ","f",
      "r","o","m"," ">>
ERROR_CALLING_PREFIX ==
    <<"E","r","r","o","r"," ","w","h","e","n"," ","c","a","l","l","i","n","g"," ","t","o","o",
      "l"," ">>
ERROR_CALLING_INFIX ==
    <<","," ","e","r","r","o","r",":"," ">>

CODE_429 == <<"4","2","9">>
CODE_529 == <<"5","2","9">>

-----------------------------------------------------------------------------
(* The environment of a query: the tool gateway and the completion service *)

TOOL_NAME == "tool"

\* the characters of a tool name in a template literal
ToolNameChars(name) ==
    IF name = TOOL_NAME THEN <<"t","o","o","l">>
    ELSE <<"u","n","k","n","o","w","n","_","t","o","o","l">>

MCP_ERROR_NAME == <<"M","c","p","E","r","r","o","r">>

\* what client.callTool does: it returns a result or throws
ToolReturns(content) == [threw |-> FALSE, content |-> content]
ToolThrows(error) == [threw |-> TRUE, error |-> error]

\* a result of two content items, an empty result, a failure of the tool and a timeout
ToolOutcomes ==
    { ToolReturns(<<[text |-> PlainText], [data |-> Base64Text]>>),
      ToolReturns(<<>>),
      ToolThrows(Error(ERROR_NAME,
          <<"f","a","i","l","e","d">>)),
      ToolThrows(Error(MCP_ERROR_NAME,
          <<"R","e","q","u","e","s","t"," ","t","i","m","e","d"," ","o","u","t">>)) }

\* what messages.create can throw: a rate limit, an overload, another error of the
\* service, and a value that is no Error
RATE_LIMIT_ERROR ==
    Error(ERROR_NAME,
          <<"4","2","9"," ","r","a","t","e","_","l","i","m","i","t","_","e","r","r","o","r">>)
OVERLOADED_ERROR ==
    Error(ERROR_NAME,
          <<"5","2","9"," ","o","v","e","r","l","o","a","d","e","d","_","e","r","r","o","r">>)
API_ERROR ==
    Error(ERROR_NAME,
          <<"5","0","0"," ","a","p","i","_","e","r","r","o","r">>)
ABORTED ==
    NotAnError(
          <<"a","b","o","r","t","e","d">>)

ApiErrors == {RATE_LIMIT_ERROR, OVERLOADED_ERROR, API_ERROR, ABORTED}

\* the id of the i-th block of the response that follows the given earlier ones
ToolUseId(earlier, i) == "toolu_" \o ToString(earlier) \o "_" \o ToString(i)

ResponseBlock(kind, earlier, i) ==
    IF kind = "text"
    THEN TextBlock(PlainText, Undefined, Undefined)
    ELSE ToolUseBlock(ToolUseId(earlier, i), TOOL_NAME, EMPTY_INPUT)

\* the contents messages.create can return: at most MaxResponseBlocks blocks, each a
\* text or a tool_use with an id of its own
Responses(earlier) ==
    UNION { { [i \in 1..len |-> ResponseBlock(kinds[i], earlier, i)] :
                kinds \in [1..len -> {"text", "tool_use"}] } : len \in 0..MaxResponseBlocks }

\* the user queries
Queries == {PlainText}

\* a call of sseEmit
Emit(role, content) == [role |-> role, content |-> content]

-----------------------------------------------------------------------------
(* ConversationManager.processUserQuery, createMessageWithRetry from the     *)
(* first attempt on, and handleLLMResponse                                  *)

\* processUserQuery: the query is pushed and createMessageWithRetry is called
ProcessUserQuery ==
    /\ pc = "idle"
    /\ \E query \in Queries :
           conversation' = Append(conversation, Message("user", Str(query)))
    /\ pc' = "createMessageWithRetry"
    /\ UNCHANGED <<pruned, currentTokens, maxContextTokens, entry>>
    /\ UNCHANGED <<loopVars, hostVars, envVars>>

\* createMessageWithRetry after ensureContextWindowLimit: the loop starts with attempt 1;
\* the locals of ensureContextWindowLimit are gone
BeginAttempts ==
    /\ pc = "ensured"
    /\ lastError' = Null
    /\ attempt' = 1
    /\ waited' = <<>>
    /\ currentTokens' = 0
    /\ entry' = <<>>
    /\ pc' = "attempt"
    /\ UNCHANGED <<conversation, pruned, maxContextTokens>>
    /\ UNCHANGED <<maxNumberOfToolCallsPerQueryRound, toolCallCountRound, response, toolUseBlocks,
                   userToolResultsMessage, maxRetries, retryDelayMs, thrown,
                   emitted, called, received, created>>
    /\ UNCHANGED <<hostVars, envVars>>

\* one attempt: messages.create returns a response or throws
CreateMessage ==
    /\ pc = "attempt"
    /\ attempt <= maxRetries
    /\ created' = created + 1
    /\ \/ \E content \in Responses(Len(received)) :
              /\ response' = content
              /\ received' = Append(received, content)
              /\ pc' = "handleLLMResponse"
              /\ UNCHANGED lastError
       \/ \E error \in ApiErrors :
              /\ lastError' = error
              /\ pc' = "catch"
              /\ UNCHANGED <<response, received>>
    /\ UNCHANGED limitVarsButPc
    /\ UNCHANGED <<maxNumberOfToolCallsPerQueryRound, toolCallCountRound, toolUseBlocks,
                   userToolResultsMessage, maxRetries, retryDelayMs, attempt, thrown,
                   emitted, called, waited>>
    /\ UNCHANGED <<hostVars, envVars>>

\* every Error taken for a rate limit or an overload
IsAnyError(error) == error.instanceofError

\* the test of the catch block: an Error whose message holds 429 or 529
IsRateLimitOrOverload(error) ==
    /\ error.instanceofError
    /\ Includes(error.message, CODE_429) \/ Includes(error.message, CODE_529)

\* the retry is allowed also after the last attempt
MayRetryAfterLastAttempt == attempt <= maxRetries

\* the test that allows a retry
MayRetry == attempt < maxRetries

\* the same delay before every retry
RetryDelayOfFirstAttempt == retryDelayMs

\* const delay = attempt * retryDelayMs
RetryDelay == attempt * retryDelayMs

\* a rate limit or an overload before the last attempt: the delay, then the next attempt
RetryAfterDelay ==
    /\ pc = "catch"
    /\ IsRateLimitOrOverload(lastError)
    /\ MayRetry
    /\ waited' = Append(waited, RetryDelay)
    /\ attempt' = attempt + 1
    /\ pc' = "attempt"
    /\ UNCHANGED limitVarsButPc
    /\ UNCHANGED <<maxNumberOfToolCallsPerQueryRound, toolCallCountRound, response, toolUseBlocks,
                   userToolResultsMessage, maxRetries, retryDelayMs, lastError, thrown,
                   emitted, called, received, created>>
    /\ UNCHANGED <<hostVars, envVars>>

\* the message of the rate limit for every error that ends the retries
ExhaustedMessageOfRateLimit(error, retries) == RateLimitExceeded(retries)

\* the message of the error that ends the retries
ExhaustedMessage(error, retries) ==
    IF Includes(error.message, CODE_429) THEN RateLimitExceeded(retries) ELSE SERVER_OVERLOAD

\* a rate limit or an overload at the last attempt: the error for the user is thrown
ThrowExhausted ==
    /\ pc = "catch"
    /\ IsRateLimitOrOverload(lastError)
    /\ ~MayRetry
    /\ thrown' = Error(ERROR_NAME, ExhaustedMessage(lastError, maxRetries))
    /\ pc' = "thrown"
    /\ UNCHANGED limitVarsButPc
    /\ UNCHANGED <<maxNumberOfToolCallsPerQueryRound, toolCallCountRound, response, toolUseBlocks,
                   userToolResultsMessage, maxRetries, retryDelayMs, attempt, lastError,
                   emitted, called, received, waited, created>>
    /\ UNCHANGED <<hostVars, envVars>>

\* any other error is thrown at once
ThrowImmediately ==
    /\ pc = "catch"
    /\ ~IsRateLimitOrOverload(lastError)
    /\ thrown' = lastError
    /\ pc' = "thrown"
    /\ UNCHANGED limitVarsButPc
    /\ UNCHANGED <<maxNumberOfToolCallsPerQueryRound, toolCallCountRound, response, toolUseBlocks,
                   userToolResultsMessage, maxRetries, retryDelayMs, attempt, lastError,
                   emitted, called, received, waited, created>>
    /\ UNCHANGED <<hostVars, envVars>>

\* the loop ends without a return: lastError, or the unknown error, is thrown
ThrowLastError ==
    /\ pc = "attempt"
    /\ ~(attempt <= maxRetries)
    /\ thrown' = IF lastError = Null
                 THEN Error(ERROR_NAME, UNKNOWN_ERROR_AFTER_RETRIES)
                 ELSE lastError
    /\ pc' = "thrown"
    /\ UNCHANGED limitVarsButPc
    /\ UNCHANGED <<maxNumberOfToolCallsPerQueryRound, toolCallCountRound, response, toolUseBlocks,
                   userToolResultsMessage, maxRetries, retryDelayMs, attempt, lastError,
                   emitted, called, received, waited, created>>
    /\ UNCHANGED <<hostVars, envVars>>

\* the test of the limit with the limit itself allowed as a round
LimitHitAboveTheLimit(count, limit) == count > limit

\* the test of handleLLMResponse on a tool_use block
LimitHit(count, limit) == count >= limit

\* every text emitted as the empty string
TextDropped(text) == <<>>

\* block.text || ''
TextOrEmpty(text) == IF text = <<>> THEN <<>> ELSE text

\* the first loop of handleLLMResponse from block i on; read holds the content of
\* assistantMessage, the calls of sseEmit, toolUseBlocks and whether the loop was left
\* by the break, after the push of assistantMessage
RECURSIVE ReadBlocks(_, _, _, _, _)
ReadBlocks(blocks, i, count, limit, read) ==
    IF i > Len(blocks) THEN read
    ELSE LET block == blocks[i]
         IN  IF block.type = "text"
             THEN ReadBlocks(blocks, i + 1, count, limit,
                             [read EXCEPT !.content = Append(@, block),
                                          !.emits = Append(@, Emit("assistant",
                                                                   Str(TextOrEmpty(block.text))))])
             ELSE IF block.type = "tool_use"
             THEN IF LimitHit(count, limit)
                  THEN LET msg == TooManyToolCalls(limit)
                       IN  [read EXCEPT !.content = Append(@, TextBlock(msg, Undefined, Undefined)),
                                        !.emits = Append(@, Emit("assistant", Str(msg))),
                                        !.break = TRUE]
                  ELSE ReadBlocks(blocks, i + 1, count, limit,
                                  [read EXCEPT !.content = Append(@, block),
                                               !.emits = Append(@, Emit("assistant", Arr(<<block>>))),
                                               !.toolUseBlocks = Append(@, block)])
             ELSE ReadBlocks(blocks, i + 1, count, limit, read)

NothingRead == [content |-> <<>>, emits |-> <<>>, toolUseBlocks |-> <<>>, break |-> FALSE]

\* handleLLMResponse up to its first await: the blocks are read and emitted, the
\* assistant message is pushed (once more at the break), and without tool_use block
\* the query is over
HandleLLMResponse ==
    /\ pc = "handleLLMResponse"
    /\ LET read == ReadBlocks(response, 1, toolCallCountRound,
                              maxNumberOfToolCallsPerQueryRound, NothingRead)
           assistantMessage == Message("assistant", Arr(read.content))
       IN  /\ conversation' = conversation
                                 \o (IF read.break THEN <<assistantMessage>> ELSE <<>>)
                                 \o <<assistantMessage>>
           /\ emitted' = emitted \o read.emits
           /\ toolUseBlocks' = read.toolUseBlocks
           /\ pc' = IF read.toolUseBlocks = <<>> THEN "resolved" ELSE "callTool"
    /\ userToolResultsMessage' = <<>>
    /\ UNCHANGED <<pruned, currentTokens, maxContextTokens, entry>>
    /\ UNCHANGED <<maxNumberOfToolCallsPerQueryRound, toolCallCountRound, response,
                   maxRetries, retryDelayMs, attempt, lastError, thrown,
                   called, received, waited, created>>
    /\ UNCHANGED <<hostVars, envVars>>

\* x.text ?? x.data
TextOrData(x) == IF "text" \in DOMAIN x THEN x.text ELSE x.data

\* the tool_result block with is_error set only when callTool threw
ToolResultNoErrorWhenEmpty(block, outcome) ==
    IF outcome.threw
    THEN ToolResultBlock(block.id,
                         Str(ERROR_CALLING_PREFIX \o ToolNameChars(block.name)
                                 \o ERROR_CALLING_INFIX \o String(outcome.error)),
                         "true", Undefined)
    ELSE ToolResultBlock(block.id, Str(NO_RESULTS_PREFIX \o ToolNameChars(block.name)),
                         "false", Undefined)

\* the tool_result block built from what callTool did
ToolResult(block, outcome) ==
    IF outcome.threw
    THEN ToolResultBlock(block.id,
                         Str(ERROR_CALLING_PREFIX \o ToolNameChars(block.name)
                                 \o ERROR_CALLING_INFIX \o String(outcome.error)),
                         "true", Undefined)
    ELSE IF outcome.content # <<>>
    THEN ToolResultBlock(block.id,
                         Str(Join([i \in DOMAIN outcome.content |-> TextOrData(outcome.content[i])],
                                  <<"\n", "\n">>)),
                         "false", Undefined)
    ELSE ToolResultBlock(block.id, Str(NO_RESULTS_PREFIX \o ToolNameChars(block.name)),
                         "true", Undefined)

\* the call after this one is made without the await
NotAwaited == TRUE

\* await client.callTool(...): the loop goes on when the call has settled
Awaited == inFlight = {}

\* the tool_use blocks of toolUseBlocks whose call is made or settled
Reached == Len(userToolResultsMessage) + Cardinality(inFlight)

\* one round of the second loop up to its await: client.callTool is called for the
\* next tool_use block
CallTool ==
    /\ pc = "callTool"
    /\ Awaited
    /\ Reached < Len(toolUseBlocks)
    /\ inFlight' = inFlight \cup {toolUseBlocks[Reached + 1].id}
    /\ UNCHANGED limitVars
    /\ UNCHANGED loopVars
    /\ UNCHANGED <<hostVars, estimates, browserClients, broadcasts, written>>

\* one round of the second loop from its await on: the call returns or throws, the
\* result block is pushed to userToolResultsMessage and emitted
CallToolSettles ==
    /\ pc = "callTool"
    /\ \E i \in DOMAIN toolUseBlocks :
           LET block == toolUseBlocks[i]
           IN  /\ block.id \in inFlight
               /\ inFlight' = inFlight \ {block.id}
               /\ \E outcome \in ToolOutcomes :
                      LET toolResultBlock == ToolResult(block, outcome)
                      IN  /\ called' = Append(called, [name |-> block.name, arguments |-> block.input,
                                                       tool_use_id |-> block.id, outcome |-> outcome])
                          /\ userToolResultsMessage' = Append(userToolResultsMessage, toolResultBlock)
                          /\ emitted' = Append(emitted, Emit("user", Arr(<<toolResultBlock>>)))
    /\ UNCHANGED limitVars
    /\ UNCHANGED <<maxNumberOfToolCallsPerQueryRound, toolCallCountRound, response, toolUseBlocks,
                   maxRetries, retryDelayMs, attempt, lastError, thrown,
                   received, waited, created>>
    /\ UNCHANGED <<hostVars, estimates, browserClients, broadcasts, written>>

\* the round counter passed on as it is
SameRound(count) == count

\* toolCallCountRound + 1, the argument of the recursive call
NextRound(count) == count + 1

\* after the second loop: the message of the results is pushed and
\* createMessageWithRetry is called; its response is handled with toolCallCountRound + 1
PushToolResults ==
    /\ pc = "callTool"
    /\ Len(userToolResultsMessage) = Len(toolUseBlocks)
    /\ conversation' = Append(conversation, Message("user", Arr(userToolResultsMessage)))
    /\ toolCallCountRound' = NextRound(toolCallCountRound)
    /\ pc' = "createMessageWithRetry"
    /\ UNCHANGED <<pruned, currentTokens, maxContextTokens, entry>>
    /\ UNCHANGED <<maxNumberOfToolCallsPerQueryRound, response, toolUseBlocks,
                   userToolResultsMessage, maxRetries, retryDelayMs, attempt, lastError, thrown,
                   emitted, called, received, waited, created>>
    /\ UNCHANGED <<hostVars, envVars>>

\* errorMsg as the string of the error, with its name
ErrorMsgWithName(error) == String(error)

\* errorMsg of the catch block of processUserQuery
ErrorMsg(error) == IF error.instanceofError THEN error.message ELSE String(error)

\* the catch block of processUserQuery: the message of the error is pushed as an
\* assistant message and emitted, and a new Error is thrown
ProcessUserQueryCatch ==
    /\ pc = "thrown"
    /\ LET errorMsg == ErrorMsg(thrown)
       IN  /\ conversation' = Append(conversation, Message("assistant", Str(errorMsg)))
           /\ emitted' = Append(emitted, Emit("assistant", Str(errorMsg)))
           /\ thrown' = Error(ERROR_NAME, errorMsg)
    /\ pc' = "rejected"
    /\ UNCHANGED <<pruned, currentTokens, maxContextTokens, entry>>
    /\ UNCHANGED <<maxNumberOfToolCallsPerQueryRound, toolCallCountRound, response, toolUseBlocks,
                   userToolResultsMessage, maxRetries, retryDelayMs, attempt, lastError,
                   called, received, waited, created>>
    /\ UNCHANGED <<hostVars, envVars>>

\* the conversations main.ts restores for the manager of a query: none, and a round
\* of texts
QueryHistories ==
    { <<>>,
      <<Message("user", Str(PlainText)), Message("assistant", Str(PlainText))>> }

InitQuery ==
    /\ conversation \in QueryHistories
    /\ pruned = <<>>
    /\ pc = "idle"
    /\ currentTokens = 0
    /\ maxContextTokens = WithSafetyMargin(DEFAULT_MAX_CONTEXT_TOKENS)
    /\ entry = <<>>
    /\ maxNumberOfToolCallsPerQueryRound \in 1..MaxToolCalls
    /\ maxRetries = DEFAULT_MAX_RETRIES
    /\ retryDelayMs = DEFAULT_RETRY_DELAY_MS
    /\ InitLocals
    /\ InitHost
    /\ estimates = EstimatesFarFromLimit
    /\ inFlight = {}
    /\ InitSSE

NextQuery ==
    \/ ProcessUserQuery
    \/ NextLimit
    \/ BeginAttempts
    \/ CreateMessage
    \/ RetryAfterDelay
    \/ ThrowExhausted
    \/ ThrowImmediately
    \/ HandleLLMResponse
    \/ CallTool
    \/ CallToolSettles
    \/ PushToolResults
    \/ ProcessUserQueryCatch

SpecQuery == InitQuery /\ [][NextQuery]_vars

-----------------------------------------------------------------------------
(* createMessageWithRetry as an operation: one call on a conversation that   *)
(* ends with the query, for every argument maxRetries up to MaxRetries      *)

RetryConversations ==
    {Append(history, Message("user", Str(query))) : history \in QueryHistories, query \in Queries}

InitRetry ==
    /\ conversation \in RetryConversations
    /\ pruned = <<>>
    /\ pc = "createMessageWithRetry"
    /\ currentTokens = 0
    /\ maxContextTokens = WithSafetyMargin(DEFAULT_MAX_CONTEXT_TOKENS)
    /\ entry = <<>>
    /\ maxNumberOfToolCallsPerQueryRound = DEFAULT_MAX_TOOL_CALLS
    /\ maxRetries \in 0..MaxRetries
    /\ retryDelayMs = DEFAULT_RETRY_DELAY_MS
    /\ InitLocals
    /\ InitHost
    /\ estimates = EstimatesFarFromLimit
    /\ inFlight = {}
    /\ InitSSE

NextRetry ==
    \/ NextLimit
    \/ BeginAttempts
    \/ CreateMessage
    \/ RetryAfterDelay
    \/ ThrowExhausted
    \/ ThrowImmediately
    \/ ThrowLastError

SpecRetry == InitRetry /\ [][NextRetry]_vars

-----------------------------------------------------------------------------
(* Reading a query *)

\* the responses handleLLMResponse has read
Handled == IF pc = "handleLLMResponse" THEN SubSeq(received, 1, Len(received) - 1) ELSE received

\* the tool_use blocks of a response
ToolUsesOf(content) == SelectSeq(content, LAMBDA block : block.type = "tool_use")

\* the calls of callTool for the tool_use blocks of a response
CallsFor(content) ==
    SelectSeq(called, LAMBDA call : \E i \in DOMAIN content :
                                        /\ content[i].type = "tool_use"
                                        /\ content[i].id = call.tool_use_id)

\* whether callTool threw or returned no content
Failed(outcome) == outcome.threw \/ outcome.content = <<>>

Last(seq) == seq[Len(seq)]

Resolved == pc = "resolved"
Rejected == pc = "rejected"

(* C11: within one query the number of calls of callTool never exceeds      *)
(* maxNumberOfToolCallsPerQuery, whatever the number of tool_use blocks of  *)
(* each response.                                                           *)
ToolCallsWithinLimit == Len(called) <= maxNumberOfToolCallsPerQueryRound

Shown(role, kind, id, text) == [role |-> role, kind |-> kind, id |-> id, text |-> text]

ShownBy(emit) ==
    IF emit.content.typeof = "string"
    THEN Shown(emit.role, "text", "", emit.content.chars)
    ELSE Shown(emit.role, emit.content.items[1].type, IdOf(emit.content.items[1]), <<>>)

ShownEmits == [i \in DOMAIN emitted |-> ShownBy(emitted[i])]

ShownForBlock(block) ==
    IF block.type = "text"
    THEN Shown("assistant", "text", "", block.text)
    ELSE Shown("assistant", "tool_use", block.id, <<>>)

\* the results of the tools called so far for a response, in the order of its tool_use blocks
ShownForResults(content) ==
    [i \in 1..Len(CallsFor(content)) |-> Shown("user", "tool_result", ToolUsesOf(content)[i].id, <<>>)]

\* every block of a response, then the results of its round
ShownForWholeResponse(content) ==
    [i \in DOMAIN content |-> ShownForBlock(content[i])] \o ShownForResults(content)

\* the position of the first tool_use block of a response that holds one
FirstToolUse(content) ==
    CHOOSE i \in DOMAIN content :
        /\ content[i].type = "tool_use"
        /\ \A j \in 1..(i - 1) : content[j].type # "tool_use"

\* a response read at the limit: its texts before the first tool_use block, then the
\* text of the limit
ShownAtLimit(content) ==
    [i \in 1..(FirstToolUse(content) - 1) |-> ShownForBlock(content[i])]
        \o <<Shown("assistant", "text", "",
                   TooManyToolCalls(maxNumberOfToolCallsPerQueryRound))>>

\* what the rounds show, one after the other; the round of the k-th response is k - 1
ShownForAll(contents, Shows(_, _)) ==
    Flatten([k \in DOMAIN contents |-> Shows(contents[k], k - 1)])

LastN(seq, n) == SubSeq(seq, Len(seq) - n + 1, Len(seq))

\* the round's results are committed: the step from the second loop of
\* handleLLMResponse to createMessageWithRetry has just been taken
ResultsCommitted == pc = "createMessageWithRetry" /\ toolCallCountRound > 0

(* C14: a failure of the tool gateway never ends the query: for every       *)
(* tool_use block dispatched in a round, whether callTool returns content,  *)
(* returns none, throws or times out, exactly one tool_result block of its  *)
(* id is emitted and committed in the one user message of the round, in     *)
(* invocation order, with is_error true exactly when the call threw or      *)
(* returned no content; and after the round a completion call is made       *)
(* before the query ends.                                                   *)
ToolFailuresAreResults ==
    /\ [](ResultsCommitted =>
             LET n == Len(toolUseBlocks)
                 results == Last(conversation).content.items
                 calls == LastN(called, n)
                 emits == LastN(emitted, n)
             IN  /\ n > 0
                 /\ Last(conversation).role = "user"
                 /\ Len(results) = n
                 /\ \A i \in 1..n :
                        /\ calls[i].tool_use_id = toolUseBlocks[i].id
                        /\ results[i].type = "tool_result"
                        /\ results[i].tool_use_id = toolUseBlocks[i].id
                        /\ results[i].is_error = (IF Failed(calls[i].outcome) THEN "true" ELSE "false")
                        /\ emits[i] = Emit("user", Arr(<<results[i]>>)))
    /\ [][/\ pc = "callTool" => pc' \in {"callTool", "createMessageWithRetry"}
          /\ pc = "callTool" /\ pc' = "createMessageWithRetry"
                 => /\ Len(conversation') = Len(conversation) + 1
                    /\ Len(userToolResultsMessage) = Len(toolUseBlocks)
                    /\ thrown' = Null
          /\ pc = "createMessageWithRetry" => pc' = "ensureContextWindowLimit"
          /\ pc = "ensured" => pc' = "attempt"
          /\ pc = "attempt" => created' = created + 1]_vars
    /\ [](pc \in {"resolved", "rejected"} => created > toolCallCountRound)

ToolFailuresAreResultsWitness ==
    /\ ResultsCommitted
    /\ Len(toolUseBlocks) = 2
    /\ Last(called).outcome.threw
    /\ ~Failed(called[Len(called) - 1].outcome)
    /\ Last(conversation).content.items[2].is_error = "true"

\* whether the messages of a conversation are found, up to redaction, in the same
\* order in another one
RECURSIVE StayIn(_, _)
StayIn(messages, conv) ==
    IF messages = <<>> THEN TRUE
    ELSE IF conv = <<>> THEN FALSE
    ELSE IF MessageUpToRedaction(Head(messages), Head(conv))
         THEN StayIn(Tail(messages), Tail(conv))
         ELSE StayIn(messages, Tail(conv))

\* the messages a query that fails has pushed before its error: the query, and for
\* every response the assistant message of its blocks and the message of its results
PushedBeforeError ==
    <<Message("user", Str(PlainText))>>
        \o Flatten([k \in DOMAIN received |->
                       <<Message("assistant", Arr(received[k])),
                         Message("user",
                                 Arr([i \in DOMAIN CallsFor(received[k]) |->
                                         ToolResult(ToolUsesOf(received[k])[i],
                                                    CallsFor(received[k])[i].outcome)]))>>])

\* the message of the error a query fails with
FatalMessage(error) == IF error.instanceofError THEN error.message ELSE error.chars

(* C15 as stated: when a completion call fails for good, the message of the *)
(* error is the last message of the conversation, as an assistant message,  *)
(* and the last emit, and the query of the user and every message pushed    *)
(* in the earlier rounds are still in the conversation.                     *)
ErrorKeepsEveryTurn ==
    Rejected =>
        /\ Last(conversation) = Message("assistant", Str(thrown.message))
        /\ Last(emitted) = Emit("assistant", Str(thrown.message))
        /\ StayIn(PushedBeforeError, SubSeq(conversation, 1, Len(conversation) - 1))

(* C15 amended: when a completion call fails for good, processUserQuery     *)
(* pushes one assistant message holding the message of the error as the    *)
(* last message of the conversation, emits it once and throws an Error of  *)
(* that message, and nothing follows; every message of the conversation    *)
(* stays in it through every step of the query except the eviction of      *)
(* ensureContextWindowLimit, which removes the two oldest messages, the    *)
(* query of the user among them.                                           *)
ErrorKeepsTurnsNotEvicted ==
    /\ [][/\ pc = "thrown"
             => /\ conversation' = Append(conversation,
                                          Message("assistant", Str(FatalMessage(thrown))))
                /\ emitted' = Append(emitted, Emit("assistant", Str(FatalMessage(thrown))))
                /\ thrown' = Error(ERROR_NAME, FatalMessage(thrown))
                /\ pc' = "rejected"
          /\ pc # "thrown" => emitted' = emitted \/ pc \in {"handleLLMResponse", "callTool"}
          /\ pc = "rejected" => pc' = "rejected" /\ conversation' = conversation
          /\ ~(pc = "while" /\ OverLimit) => StayIn(conversation, conversation')]_vars
    /\ [](pc = "thrown" => thrown # Null)

ErrorKeepsTurnsNotEvictedWitness ==
    /\ Rejected
    /\ toolCallCountRound = 1
    /\ Len(conversation) = 4
    /\ conversation[1] = Message("user", Str(PlainText))
    /\ Last(conversation) = Message("assistant", Str(RateLimitExceeded(DEFAULT_MAX_RETRIES)))
    /\ Len(emitted) = 3

(* C16: createMessageWithRetry makes at most maxRetries attempts when the   *)
(* attempts fail with a rate limit (429) or an overload (529): such a       *)
(* failure of an attempt before the last is followed by a retry, and at the *)
(* last attempt it raises the error for the user (Rate limit exceeded       *)
(* after maxRetries attempts, or the message of the overload) with no       *)
(* further attempt.                                                         *)
RetriesAreBounded ==
    /\ [](created <= maxRetries /\ attempt <= maxRetries + 1)
    /\ [][/\ pc = "catch" /\ lastError \in {RATE_LIMIT_ERROR, OVERLOADED_ERROR}
                          /\ attempt < maxRetries
             => pc' = "attempt" /\ attempt' = attempt + 1 /\ attempt' <= maxRetries
          /\ pc = "catch" /\ lastError \in {RATE_LIMIT_ERROR, OVERLOADED_ERROR}
                          /\ attempt >= maxRetries
             => /\ pc' = "thrown"
                /\ created' = created
                /\ thrown' = Error(ERROR_NAME,
                                   IF lastError = RATE_LIMIT_ERROR
                                   THEN RateLimitExceeded(maxRetries)
                                   ELSE SERVER_OVERLOAD)
          /\ pc = "thrown" => pc' = "thrown" /\ created' = created]_vars

RetriesAreBoundedWitness ==
    /\ pc = "thrown"
    /\ maxRetries = 2
    /\ created = 2
    /\ lastError = RATE_LIMIT_ERROR
    /\ Len(waited) = 1
    /\ thrown.message = RateLimitExceeded(2)

-----------------------------------------------------------------------------
(* MCPClient.createMessageWithRetry: the retry loop of the client, with the  *)
(* recovery from a tool_use the service finds without its tool_result       *)

\* [A-Za-z0-9]
Alphanumerics ==
    { "A", "B", "C", "D", "E", "F", "G", "H", "I", "J", "K", "L", "M", "N", "O", "P",
      "Q", "R", "S", "T", "U", "V", "W", "X", "Y", "Z", "a", "b", "c", "d", "e", "f",
      "g", "h", "i", "j", "k", "l", "m", "n", "o", "p", "q", "r", "s", "t", "u", "v",
      "w", "x", "y", "z", "0", "1", "2", "3", "4", "5", "6", "7", "8", "9" }

TOOLU_ == <<"t","o","o","l","u","_">>
TOOL_USE == <<"t","o","o","l","_","u","s","e">>
WITHOUT_TOOL_RESULT_BLOCKS ==
    <<"w","i","t","h","o","u","t"," ","t","o","o","l","_","r","e","s","u","l","t"," ","b","l","o","c","k","s">>

\* the longest run of [A-Za-z0-9] of str from position i on
RECURSIVE RunFrom(_, _)
RunFrom(str, i) ==
    IF i <= Len(str) /\ str[i] \in Alphanumerics THEN <<str[i]>> \o RunFrom(str, i + 1) ELSE <<>>

MatchesAt(str, i) ==
    /\ i + Len(TOOLU_) <= Len(str)
    /\ SubSeq(str, i, i + Len(TOOLU_) - 1) = TOOLU_
    /\ str[i + Len(TOOLU_)] \in Alphanumerics

\* error.message.match(/toolu_[A-Za-z0-9]+/)?.[0]: the leftmost longest match, or undefined
MatchToolUseId(str) ==
    IF \E i \in 1..Len(str) : MatchesAt(str, i)
    THEN LET i == CHOOSE k \in 1..Len(str) :
                      MatchesAt(str, k) /\ \A j \in 1..(k - 1) : ~MatchesAt(str, j)
         IN  Str(TOOLU_ \o RunFrom(str, i + Len(TOOLU_)))
    ELSE Null

\* the ids the service gives to tool_use blocks, and their characters
ClientIds == {"toolu_a", "toolu_b9"}
IdChars(id) == IF id = "toolu_a" THEN <<"t","o","o","l","u","_","a">> ELSE <<"t","o","o","l","u","_","b","9">>

\* the rejection of the service that names a tool_use id
TOOL_USE_IDS_PREFIX ==
    <<"4","0","0"," ","t","o","o","l","_","u","s","e"," ","i","d","s"," ","w","e","r","e"," ","f","o","u","n","d"," ","w","i","t","h","o","u","t"," ","t","o","o","l","_","r","e","s","u","l","t"," ","b","l","o","c","k","s"," ","i","m","m","e","d","i","a","t","e","l","y"," ","a","f","t","e","r",":"," ">>
ToolUseWithoutResultError(id) ==
    Error(ERROR_NAME, TOOL_USE_IDS_PREFIX \o IdChars(id) \o <<".">>)

\* the same rejection with no id in it
TOOL_USE_WITHOUT_ID_ERROR ==
    Error(ERROR_NAME,
          <<"4","0","0"," ","t","o","o","l","_","u","s","e"," ","i","d","s"," ","w","e","r","e"," ","f","o","u","n","d"," ","w","i","t","h","o","u","t"," ","t","o","o","l","_","r","e","s","u","l","t"," ","b","l","o","c","k","s">>)

ClientApiErrors ==
    ApiErrors \union {ToolUseWithoutResultError(id) : id \in ClientIds}
              \union {TOOL_USE_WITHOUT_ID_ERROR}

\* messages.findIndex of the recovery: the first turn with a tool_use block of that id, or -1
FindToolUseIndex(messages, toolUseId) ==
    LET holds(m) == /\ messages[m].content.typeof # "string"
                    /\ \E b \in DOMAIN messages[m].content.items :
                           /\ messages[m].content.items[b].type = "tool_use"
                           /\ IdChars(messages[m].content.items[b].id) = toolUseId.chars
    IN  IF \E m \in DOMAIN messages : holds(m)
        THEN CHOOSE m \in DOMAIN messages : holds(m) /\ \A k \in 1..(m - 1) : ~holds(k)
        ELSE -1

\* the test of the recovery branch on the message of the error
IsToolUseWithoutResult(error) ==
    /\ error.instanceofError
    /\ Includes(error.message, TOOL_USE)
    /\ Includes(error.message, WITHOUT_TOOL_RESULT_BLOCKS)

\* the index of the turn the recovery removes, or -1 when the error names no turn
ProblematicIndex(messages, error) ==
    LET toolUseId == MatchToolUseId(error.message)
    IN  IF toolUseId = Null THEN -1 ELSE FindToolUseIndex(messages, toolUseId)

\* the recovery applies: the catch block reaches the splice
Recovers(messages, error) ==
    /\ ~IsRateLimitOrOverload(error)
    /\ IsToolUseWithoutResult(error)
    /\ ProblematicIndex(messages, error) # -1

\* messages.splice(problematicIndex, 1)
SpliceOut(messages, index) ==
    SubSeq(messages, 1, index - 1) \o SubSeq(messages, index + 1, Len(messages))

\* one attempt of the client: messages.create returns a response or throws; no
\* tokenCharger is set
MCPClientCreateMessage ==
    /\ pc = "MCPClient.attempt"
    /\ attempt <= maxRetries
    /\ created' = created + 1
    /\ \/ \E content \in Responses(Len(received)) :
              /\ response' = content
              /\ received' = Append(received, content)
              /\ pc' = "MCPClient.returned"
              /\ UNCHANGED lastError
       \/ \E error \in ClientApiErrors :
              /\ lastError' = error
              /\ pc' = "MCPClient.catch"
              /\ UNCHANGED <<response, received>>
    /\ UNCHANGED limitVarsButPc
    /\ UNCHANGED <<maxNumberOfToolCallsPerQueryRound, toolCallCountRound, toolUseBlocks,
                   userToolResultsMessage, maxRetries, retryDelayMs, attempt, thrown,
                   emitted, called, waited>>
    /\ UNCHANGED <<hostVars, envVars>>

\* a rate limit or an overload before the last attempt: the delay, then continue
MCPClientRetryAfterDelay ==
    /\ pc = "MCPClient.catch"
    /\ IsRateLimitOrOverload(lastError)
    /\ attempt < maxRetries
    /\ waited' = Append(waited, attempt * retryDelayMs)
    /\ attempt' = attempt + 1
    /\ pc' = "MCPClient.attempt"
    /\ UNCHANGED limitVarsButPc
    /\ UNCHANGED <<maxNumberOfToolCallsPerQueryRound, toolCallCountRound, response, toolUseBlocks,
                   userToolResultsMessage, maxRetries, retryDelayMs, lastError, thrown,
                   emitted, called, received, created>>
    /\ UNCHANGED <<hostVars, envVars>>

\* a rate limit or an overload at the last attempt
MCPClientThrowExhausted ==
    /\ pc = "MCPClient.catch"
    /\ IsRateLimitOrOverload(lastError)
    /\ ~(attempt < maxRetries)
    /\ thrown' = Error(ERROR_NAME, ExhaustedMessage(lastError, maxRetries))
    /\ pc' = "MCPClient.thrown"
    /\ UNCHANGED limitVarsButPc
    /\ UNCHANGED <<maxNumberOfToolCallsPerQueryRound, toolCallCountRound, response, toolUseBlocks,
                   userToolResultsMessage, maxRetries, retryDelayMs, attempt, lastError,
                   emitted, called, received, waited, created>>
    /\ UNCHANGED <<hostVars, envVars>>

\* the recovery: the turn with the named tool_use is spliced out of the conversation and
\* continue runs the attempt++ of the for loop
MCPClientRemoveProblematicMessage ==
    /\ pc = "MCPClient.catch"
    /\ Recovers(conversation, lastError)
    /\ conversation' = SpliceOut(conversation, ProblematicIndex(conversation, lastError))
    /\ attempt' = attempt + 1
    /\ pc' = "MCPClient.attempt"
    /\ UNCHANGED <<pruned, currentTokens, maxContextTokens, entry>>
    /\ UNCHANGED <<maxNumberOfToolCallsPerQueryRound, toolCallCountRound, response, toolUseBlocks,
                   userToolResultsMessage, maxRetries, retryDelayMs, lastError, thrown,
                   emitted, called, received, waited, created>>
    /\ UNCHANGED <<hostVars, envVars>>

\* any other error, a rejection that names no turn of the conversation among them
MCPClientThrowImmediately ==
    /\ pc = "MCPClient.catch"
    /\ ~IsRateLimitOrOverload(lastError)
    /\ ~Recovers(conversation, lastError)
    /\ thrown' = lastError
    /\ pc' = "MCPClient.thrown"
    /\ UNCHANGED limitVarsButPc
    /\ UNCHANGED <<maxNumberOfToolCallsPerQueryRound, toolCallCountRound, response, toolUseBlocks,
                   userToolResultsMessage, maxRetries, retryDelayMs, attempt, lastError,
                   emitted, called, received, waited, created>>
    /\ UNCHANGED <<hostVars, envVars>>

\* the for loop ends without a return: throw lastError
MCPClientThrowLastError ==
    /\ pc = "MCPClient.attempt"
    /\ ~(attempt <= maxRetries)
    /\ thrown' = lastError
    /\ pc' = "MCPClient.thrown"
    /\ UNCHANGED limitVarsButPc
    /\ UNCHANGED <<maxNumberOfToolCallsPerQueryRound, toolCallCountRound, response, toolUseBlocks,
                   userToolResultsMessage, maxRetries, retryDelayMs, attempt, lastError,
                   emitted, called, received, waited, created>>
    /\ UNCHANGED <<hostVars, envVars>>

\* this.conversation when the client calls createMessageWithRetry: a query alone, a
\* query after a tool_use left without its result, and one after an answered and an
\* unanswered tool_use
UserTurn == Message("user", Str(PlainText))
ToolUseTurn(id) ==
    Message("assistant", Arr(<<TextBlock(PlainText, Undefined, Undefined),
                               ToolUseBlock(id, TOOL_NAME, EMPTY_INPUT)>>))
ToolResultTurn(id) ==
    Message("user", Arr(<<ToolResultBlock(id, Str(PlainText), FALSE, Undefined)>>))

ClientConversations ==
    { <<UserTurn>>,
      <<UserTurn, ToolUseTurn("toolu_a"), UserTurn>>,
      <<UserTurn, ToolUseTurn("toolu_a"), ToolResultTurn("toolu_a"),
        ToolUseTurn("toolu_b9"), UserTurn>>,
      <<UserTurn, ToolUseTurn("toolu_a"), UserTurn, ToolUseTurn("toolu_b9"), UserTurn>> }

\* createMessageWithRetry(this.conversation): maxRetries and retryDelayMs take their defaults
InitClient ==
    /\ conversation \in ClientConversations
    /\ pruned = <<>>
    /\ pc = "MCPClient.attempt"
    /\ currentTokens = 0
    /\ maxContextTokens = WithSafetyMargin(DEFAULT_MAX_CONTEXT_TOKENS)
    /\ entry = <<>>
    /\ maxNumberOfToolCallsPerQueryRound = DEFAULT_MAX_TOOL_CALLS
    /\ maxRetries = DEFAULT_MAX_RETRIES
    /\ retryDelayMs = DEFAULT_RETRY_DELAY_MS
    /\ toolCallCountRound = 0
    /\ response = <<>>
    /\ toolUseBlocks = <<>>
    /\ userToolResultsMessage = <<>>
    /\ attempt = 1
    /\ lastError = Null
    /\ thrown = Null
    /\ emitted = <<>>
    /\ called = <<>>
    /\ received = <<>>
    /\ waited = <<>>
    /\ created = 0
    /\ InitHost
    /\ estimates = {}
    /\ inFlight = {}
    /\ InitSSE

NextClient ==
    \/ MCPClientCreateMessage
    \/ MCPClientRetryAfterDelay
    \/ MCPClientThrowExhausted
    \/ MCPClientRemoveProblematicMessage
    \/ MCPClientThrowImmediately
    \/ MCPClientThrowLastError

SpecClient == InitClient /\ [][NextClient]_vars

(* C18: a rejection of the service for a tool_use without tool_result that  *)
(* names a tool_use id of the conversation makes createMessageWithRetry     *)
(* remove the turn with that tool_use and make another attempt with no      *)
(* delay, on whichever attempt it occurs, the last one included: the        *)
(* recovery takes none of the maxRetries attempts.                          *)
RecoveryIsFollowedByAnAttempt ==
    [][pc = "MCPClient.catch" /\ Recovers(conversation, lastError)
          => /\ conversation' =
                    SpliceOut(conversation, ProblematicIndex(conversation, lastError))
             /\ waited' = waited
             /\ pc' = "MCPClient.attempt"
             /\ attempt' <= maxRetries']_vars

-----------------------------------------------------------------------------
(* main.ts: the handlers of the HTTP server around the one conversationManager *)

MaxHandlers == 2
MaxHostTurns == 2

\* every block returned as a message with a single-element content array
FlattenMessageBlocksOnly(message) ==
    IF message.content.typeof = "string"
    THEN <<message>>
    ELSE [b \in DOMAIN message.content.items |->
             Message(message.role, Arr(<<message.content.items[b]>>))]

\* the blocks of one message as getConversation returns them
FlattenMessage(message) ==
    IF message.content.typeof = "string"
    THEN <<message>>
    ELSE Flatten([b \in DOMAIN message.content.items |->
             LET block == message.content.items[b]
             IN  IF block.type = "text"
                 THEN <<Message(message.role, Str(TextOrEmpty(block.text)))>>
                 ELSE IF block.type \in {"tool_use", "tool_result"}
                      THEN <<Message(message.role, Arr(<<block>>))>>
                      ELSE <<>>])

\* ConversationManager.getConversation
getConversation(conv) == Flatten([m \in DOMAIN conv |-> FlattenMessage(conv[m])])

\* new ConversationManager(..., persistedConversation, ...): this.conversation is a copy of
\* the array it is given
NewConversation(persistedConversation) == persistedConversation

RemoveAt(array, index) ==
    SubSeq(array, 1, index - 1) \o SubSeq(array, index + 1, Len(array))

Handler(endpoint, at, baseUrlChanged) ==
    [endpoint |-> endpoint, pc |-> at, baseUrlChanged |-> baseUrlChanged]

MoveHandler(h, at) == [handlers EXCEPT ![h].pc = at]

\* the values of llmProviderBaseUrl and of maxNumberOfToolCallsPerQuery in a request
BaseUrls == {"https://llm.test/v1"}
SettingsLimits == {1, DEFAULT_MAX_TOOL_CALLS}

\* what a query adds to the conversation after its own turn: an answer, a round with a
\* tool and the answer, or the message of the error that ended it
TextTurn == Message("assistant", Arr(<<TextBlock(PlainText, Undefined, Undefined)>>))
QueryTurns ==
    { <<TextTurn>>,
      <<ToolUseTurn("toolu_a"), ToolResultTurn("toolu_a"), TextTurn>>,
      <<Message("assistant", Str(ErrorMsg(API_ERROR)))>> }

\* POST /message up to its first await: the query is there and Actor.pushData is called
PostMessage ==
    /\ pc = "listening"
    /\ Len(handlers) < MaxHandlers
    /\ Len(conversation) < MaxHostTurns
    /\ handlers' = Append(handlers, Handler("/message", "pushData", FALSE))
    /\ UNCHANGED <<limitVars, loopVars, envVars, record, actorInput>>

\* POST /message after pushData and getOrCreateClient: processUserQuery is called, which
\* pushes the query and awaits the completion
MessageProcessUserQuery ==
    /\ pc = "listening"
    /\ \E h \in DOMAIN handlers :
           /\ handlers[h].endpoint = "/message"
           /\ handlers[h].pc = "pushData"
           /\ handlers' = MoveHandler(h, "processUserQuery")
    /\ conversation' = Append(conversation, UserTurn)
    /\ UNCHANGED <<pruned, pc, currentTokens, maxContextTokens, entry>>
    /\ UNCHANGED <<loopVars, envVars, record, actorInput>>

\* processUserQuery settles: its turns are in the conversation and the broadcastSSE of its
\* emits have persisted the conversation
MessageQuerySettles ==
    /\ pc = "listening"
    /\ \E h \in DOMAIN handlers :
           /\ handlers[h].endpoint = "/message"
           /\ handlers[h].pc = "processUserQuery"
           /\ handlers' = MoveHandler(h, "broadcastSSE")
    /\ \E turns \in QueryTurns :
           /\ conversation' = conversation \o turns
           /\ record' = getConversation(conversation \o turns)
    /\ UNCHANGED <<pruned, pc, currentTokens, maxContextTokens, entry>>
    /\ UNCHANGED <<loopVars, envVars, actorInput>>

\* POST /message to its end: the finished flag is broadcast, which persists the
\* conversation, and the response is sent
MessageFinished ==
    /\ pc = "listening"
    /\ \E h \in DOMAIN handlers :
           /\ handlers[h].endpoint = "/message"
           /\ handlers[h].pc = "broadcastSSE"
           /\ handlers' = RemoveAt(handlers, h)
    /\ record' = getConversation(conversation)
    /\ UNCHANGED <<limitVars, loopVars, envVars, actorInput>>

\* POST /conversation/reset
ConversationReset ==
    /\ pc = "listening"
    /\ conversation # <<>>
    /\ conversation' = <<>>
    /\ record' = getConversation(<<>>)
    /\ UNCHANGED <<pruned, pc, currentTokens, maxContextTokens, entry>>
    /\ UNCHANGED <<loopVars, envVars, handlers, actorInput>>

\* POST /settings up to the await of updateClientSettings, whose body has run
PostSettings ==
    /\ pc = "listening"
    /\ Len(handlers) < MaxHandlers
    /\ \E llmProviderBaseUrl \in BaseUrls \union {Undefined},
          limit \in SettingsLimits \union {maxNumberOfToolCallsPerQueryRound} :
           LET baseUrlChanged == /\ llmProviderBaseUrl # Undefined
                                 /\ llmProviderBaseUrl # actorInput.llmProviderBaseUrl
           IN  /\ actorInput' = IF baseUrlChanged
                                THEN [actorInput EXCEPT !.llmProviderBaseUrl = llmProviderBaseUrl]
                                ELSE actorInput
               /\ maxNumberOfToolCallsPerQueryRound' = limit
               /\ handlers' =
                      Append(handlers, Handler("/settings", "updateClientSettings", baseUrlChanged))
    /\ UNCHANGED <<limitVars, envVars, record>>
    /\ UNCHANGED <<toolCallCountRound, response, toolUseBlocks, userToolResultsMessage,
                   maxRetries, retryDelayMs, attempt, lastError, thrown,
                   emitted, called, received, waited, created>>

\* POST /settings after the await: with a new base URL a manager is built on
\* conversationManager.getConversation() and assigned over the running one
SettingsApplied ==
    /\ pc = "listening"
    /\ \E h \in DOMAIN handlers :
           /\ handlers[h].endpoint = "/settings"
           /\ handlers[h].pc = "updateClientSettings"
           /\ conversation' = IF handlers[h].baseUrlChanged
                             THEN NewConversation(getConversation(conversation))
                             ELSE conversation
           /\ handlers' = RemoveAt(handlers, h)
    /\ UNCHANGED <<pruned, pc, currentTokens, maxContextTokens, entry>>
    /\ UNCHANGED <<loopVars, envVars, record, actorInput>>

\* the migrating event: the conversation is persisted before the process goes
Migrating ==
    /\ pc = "listening"
    /\ record' = getConversation(conversation)
    /\ pc' = "migrating"
    /\ UNCHANGED <<limitVarsButPc, loopVars, envVars, handlers, actorInput>>

\* the start of main.ts on the migrated run: the record is read and the manager is
\* constructed on it; no handler of the old process is left
Restart ==
    /\ pc = "migrating"
    /\ conversation' = NewConversation(record)
    /\ handlers' = <<>>
    /\ actorInput' = [llmProviderBaseUrl |-> Undefined]
    /\ maxNumberOfToolCallsPerQueryRound' = DEFAULT_MAX_TOOL_CALLS
    /\ pc' = "listening"
    /\ UNCHANGED <<pruned, currentTokens, maxContextTokens, entry, envVars, record>>
    /\ UNCHANGED <<toolCallCountRound, response, toolUseBlocks, userToolResultsMessage,
                   maxRetries, retryDelayMs, attempt, lastError, thrown,
                   emitted, called, received, waited, created>>

\* the first start: nothing is persisted
InitServer ==
    /\ conversation = NewConversation(<<>>)
    /\ pruned = <<>>
    /\ pc = "listening"
    /\ currentTokens = 0
    /\ maxContextTokens = WithSafetyMargin(DEFAULT_MAX_CONTEXT_TOKENS)
    /\ entry = <<>>
    /\ InitLoop
    /\ InitHost
    /\ estimates = {}
    /\ inFlight = {}
    /\ InitSSE

NextServer ==
    \/ PostMessage
    \/ MessageProcessUserQuery
    \/ MessageQuerySettles
    \/ MessageFinished
    \/ ConversationReset
    \/ PostSettings
    \/ SettingsApplied
    \/ Migrating
    \/ Restart

SpecServer == InitServer /\ [][NextServer]_vars

\* the invocations of processUserQuery that have not settled
InFlight == {h \in DOMAIN handlers : handlers[h].pc = "processUserQuery"}

(* C19: at most one invocation of processUserQuery is in flight on the one  *)
(* ConversationManager at any time: the /message handler starts no query    *)
(* while an earlier one has not finished.                                   *)
AtMostOneQueryInFlight == Cardinality(InFlight) <= 1

\* the steps that end POST /settings, persist before a migration, and restart
SettingsEnds ==
    \E h \in DOMAIN handlers :
        handlers[h].endpoint = "/settings" /\ handlers' = RemoveAt(handlers, h)
Persists == pc = "listening" /\ pc' = "migrating"
Restores == pc = "migrating" /\ pc' = "listening"

(* C20: the flattened view of getConversation is a projection only: taking  *)
(* it leaves the internal conversation unchanged, and neither a settings    *)
(* update nor persistence followed by restore puts a flattened view in the  *)
(* place of the internal conversation; a reset leaves it empty.             *)
FlattenedViewIsNeverStored ==
    [][/\ Persists => conversation' = conversation
       /\ SettingsEnds => conversation' = conversation
       /\ Restores /\ record = getConversation(conversation) => conversation' = conversation
       /\ record' = getConversation(<<>>) /\ conversation' = <<>> => record' = <<>>]_vars

-----------------------------------------------------------------------------
(* ensureContextWindowLimit as createMessageWithRetry calls it: what it     *)
(* does with a failed count, whether it ends, and what it returns           *)

\* the positions of createMessageWithRetry up to the completion call
LimitPositions ==
    {"createMessageWithRetry", "ensureContextWindowLimit", "countFirst", "while", "countAgain",
     "ensured"}

\* the running call moves on: every step of NextLimit changes the position, and at every
\* position but the last one of its steps can be taken
Advance == pc # "ensured" /\ pc' \in LimitPositions /\ pc' # pc

\* ensureContextWindowLimit where the call never stops half way: each await resolves
SpecLimitFair == SpecLimit /\ WF_pc(Advance)

\* the count of the last request failed
CountFailed == currentTokens = Infinity

(* C23: when the request of countTokens fails, at the first count or after  *)
(* an eviction, ensureContextWindowLimit stops: from then on it removes no  *)
(* message and leaves the loop.                                             *)
FailedCountStopsEviction ==
    [][CountFailed /\ pc = "while"
          => pc' = "ensured" /\ Len(conversation') >= Len(conversation)]_vars

(* C24: ensureContextWindowLimit returns for every conversation and every   *)
(* sequence of counts, counts always over the limit and always failing      *)
(* among them: the dummy messages of the repair after each eviction never   *)
(* keep the loop running.                                                   *)
EvictionTerminates == <>Ensured

\* the loop ran to its end on counts that all failed, the repair having put a
\* dummy message in on the way
EvictionTerminatesWitness ==
    /\ Ensured
    /\ CountFailed
    /\ Len(entry) = 5
    /\ Len(conversation) = 2
    /\ \E i \in DOMAIN conversation :
           /\ conversation[i].content.typeof # "string"
           /\ \E b \in DOMAIN conversation[i].content.items :
                  /\ conversation[i].content.items[b].type = "tool_use"
                  /\ conversation[i].content.items[b].name = UNKNOWN_TOOL

(* C25: ensureContextWindowLimit runs the repair as its last step on every  *)
(* return, with or without an eviction, and the conversation it returns is  *)
(* a fixed point of pruneAndFixConversation.                                *)
RepairedOnEveryReturn ==
    /\ [][pc # "ensured" /\ pc' = "ensured"
             => conversation' = pruneAndFixConversation(conversation)]_vars
    /\ [](Ensured => pruneAndFixConversation(conversation) = conversation)

(* C26: entered with at most 2 messages, ensureContextWindowLimit returns   *)
(* with the conversation as it was, whatever the limit, and requests no     *)
(* count of tokens.                                                         *)
MinimumLengthIsLeftAlone ==
    /\ [][pc = "ensureContextWindowLimit" /\ Len(conversation) <= 2
             => /\ pc' = "ensured"
                /\ conversation' = conversation
                /\ currentTokens' = currentTokens]_vars
    /\ [](Len(entry) <= 2 /\ pc # "createMessageWithRetry"
             => /\ pc \in {"ensureContextWindowLimit", "ensured"}
                /\ conversation = entry
                /\ currentTokens = 0)

\* two messages with a tool_use left without result, under the limit of 99
MinimumLengthIsLeftAloneWitness ==
    /\ Ensured
    /\ maxContextTokens = 99
    /\ Len(entry) = 2
    /\ conversation = entry
    /\ OrphanedUseIdsAt(conversation, 2) # <<>>

-----------------------------------------------------------------------------
\* the waits a call of createMessageWithRetry may have made after k failed attempts
LinearWaits(k) == [n \in 1..k |-> n * retryDelayMs]

(* C29: the wait before the retry that follows failed attempt k, for k from *)
(* 1 to maxRetries - 1, is k * retryDelayMs: the waits of one call are      *)
(* retryDelayMs, 2 * retryDelayMs, and so on, and no wait follows the last  *)
(* attempt.                                                                 *)
WaitsGrowWithAttempts ==
    /\ [][pc = "catch" /\ pc' = "attempt"
             => /\ attempt < maxRetries
                /\ waited' = Append(waited, attempt * retryDelayMs)]_vars
    /\ [][waited' # waited => pc = "catch" /\ pc' = "attempt"]_vars
    /\ [](pc \in {"attempt", "catch", "thrown"} => waited = LinearWaits(Len(waited)))
    /\ [](pc \in {"attempt", "catch", "thrown"} /\ maxRetries >= 1
             => Len(waited) <= maxRetries - 1)

\* three rate-limited attempts: two waits, none after the third
WaitsGrowWithAttemptsWitness ==
    /\ pc = "thrown"
    /\ maxRetries = 3
    /\ created = 3
    /\ waited = <<DEFAULT_RETRY_DELAY_MS, 2 * DEFAULT_RETRY_DELAY_MS>>

RATE_LIMIT_EXCEEDED_AFTER ==
    <<"R","a","t","e"," ","l","i","m","i","t"," ","e","x","c","e","e","d","e","d"," ","a","f",
      "t","e","r"," ">>
ATTEMPTS == <<" ","a","t","t","e","m","p","t","s">>
HIGH_LOAD ==
    <<"S","e","r","v","e","r"," ","i","s"," ","c","u","r","r","e","n","t","l","y"," ","e","x",
      "p","e","r","i","e","n","c","i","n","g"," ","h","i","g","h"," ","l","o","a","d">>

NamesRateLimit(message) ==
    Includes(message, RATE_LIMIT_EXCEEDED_AFTER \o NumberChars(maxRetries) \o ATTEMPTS)
NamesOverload(message) == Includes(message, HIGH_LOAD)

\* the retries are exhausted: the last attempt failed with a rate limit or an overload
Exhausted == pc = "thrown" /\ attempt = maxRetries /\ lastError \in {RATE_LIMIT_ERROR, OVERLOADED_ERROR}

-----------------------------------------------------------------------------
(* C22: every call of handleLLMResponse appends exactly one assistant turn  *)
(* to the conversation, also when the round limit is hit.                   *)
OneAssistantTurnPerResponse ==
    [][pc = "handleLLMResponse"
          => /\ Len(conversation') = Len(conversation) + 1
             /\ SubSeq(conversation', 1, Len(conversation)) = conversation
             /\ Last(conversation').role = "assistant"]_vars

-----------------------------------------------------------------------------
(* processUserQuery on the conversation that earlier queries, or a restore, *)
(* left                                                                     *)

\* what an earlier query with one round of two tools left in the conversation
EarlierRound ==
    << Message("user", Str(PlainText)),
       Message("assistant", Arr(<<TextBlock(PlainText, Undefined, Undefined),
                                  ToolUseBlock("toolu_h_1", TOOL_NAME, EMPTY_INPUT),
                                  ToolUseBlock("toolu_h_2", TOOL_NAME, EMPTY_INPUT)>>)),
       Message("user", Arr(<<ToolResultBlock("toolu_h_1", Str(PlainText), "false", Undefined),
                             ToolResultBlock("toolu_h_2", Str(PlainText), "true", Undefined)>>)),
       Message("assistant", Arr(<<TextBlock(PlainText, Undefined, Undefined)>>)) >>

\* the conversations of QueryHistories, the one of an earlier round in the same process,
\* and the one main.ts restores after that round: the record holds getConversation()
RunHistories == QueryHistories \cup {EarlierRound, getConversation(EarlierRound)}

InitRun ==
    /\ conversation \in RunHistories
    /\ pruned = <<>>
    /\ pc = "idle"
    /\ currentTokens = 0
    /\ maxContextTokens = WithSafetyMargin(DEFAULT_MAX_CONTEXT_TOKENS)
    /\ entry = <<>>
    /\ maxNumberOfToolCallsPerQueryRound \in 1..MaxToolCalls
    /\ maxRetries = DEFAULT_MAX_RETRIES
    /\ retryDelayMs = DEFAULT_RETRY_DELAY_MS
    /\ InitLocals
    /\ InitHost
    /\ estimates = EstimatesFarFromLimit
    /\ inFlight = {}
    /\ InitSSE

SpecRun == InitRun /\ [][NextQuery]_vars

\* the conversation is the argument of messages.create
Sent == pc = "attempt" /\ attempt <= maxRetries

\* Invariant I1 and I3 for a conversation
Paired(conv) ==
    /\ \A i \in 1..(Len(conv) - 1) :
           \A id \in IdsAt(conv, i, "tool_use") :
               /\ Occurrences(conv, "tool_result", id) = 1
               /\ \E k \in (i + 1)..Len(conv) : id \in IdsAt(conv, k, "tool_result")
    /\ \A i \in DOMAIN conv :
           \A id \in IdsAt(conv, i, "tool_result") :
               \E k \in 1..(i - 1) : id \in IdsAt(conv, k, "tool_use")

(* C21: in a run of processUserQuery calls from an empty or restored        *)
(* conversation, the repair and then the context window check run before    *)
(* the first attempt of every completion call, and every conversation sent  *)
(* to the completion service satisfies the pairing invariant: no tool_use   *)
(* before the last turn without exactly one later tool_result, no           *)
(* tool_result without an earlier tool_use, so the first turn holds no      *)
(* tool_result, also right after an eviction.                               *)
SentConversationIsPaired ==
    /\ [](Sent => Paired(conversation))
    /\ [][pc = "createMessageWithRetry"
             => /\ pc' = "ensureContextWindowLimit"
                /\ conversation' = pruneAndFixConversation(conversation)
                /\ created' = created]_vars
    /\ [][pc \notin {"attempt", "catch"} /\ pc' = "attempt" => pc = "ensured"]_vars
    /\ [][(pc \in LimitPositions)
             => /\ pc' \in LimitPositions \cup {"attempt"}
                /\ created' = created]_vars
    /\ [][created' # created => pc = "attempt"]_vars

\* the conversation was evicted down to the results of the round of the query, and the
\* repair put a dummy turn with their tool_use blocks before them
SentConversationIsPairedWitness ==
    /\ Sent
    /\ Len(called) = 2
    /\ Len(conversation) = 2
    /\ conversation[1].role = "assistant"
    /\ IdsAt(conversation, 1, "tool_use") = IdsAt(conversation, 2, "tool_result")
    /\ \A j \in DOMAIN Items(conversation[1]) : Items(conversation[1])[j].name = UNKNOWN_TOOL

-----------------------------------------------------------------------------
(* C27: within one query no two external calls are in flight at once: the   *)
(* calls of callTool of a round are made one after another in the order of  *)
(* the tool_use blocks, each settled before the next is made, and           *)
(* messages.create is called only when every call of the round has settled  *)
(* and the message of the results is pushed to the conversation.            *)
OneExternalCallAtATime ==
    /\ [](Cardinality(inFlight) <= 1)
    /\ [](pc # "callTool" => inFlight = {})
    /\ [](pc = "callTool"
             => \A k \in DOMAIN userToolResultsMessage :
                    userToolResultsMessage[k].tool_use_id = toolUseBlocks[k].id)
    /\ [][inFlight' # inFlight /\ inFlight' # {}
             => /\ inFlight = {}
                /\ inFlight' = {toolUseBlocks[Len(userToolResultsMessage) + 1].id}]_vars
    /\ [][pc = "callTool" /\ pc' # "callTool"
             => /\ inFlight = {}
                /\ Len(userToolResultsMessage) = Len(toolUseBlocks)
                /\ conversation' = Append(conversation, Message("user", Arr(userToolResultsMessage)))
                /\ created' = created]_vars
    /\ [][created' # created => pc = "attempt" /\ inFlight = {}]_vars

\* the first call of a round of two has settled, the second is in flight
OneExternalCallAtATimeWitness ==
    /\ pc = "callTool"
    /\ Len(toolUseBlocks) = 2
    /\ Len(called) = 1
    /\ called[1].tool_use_id = toolUseBlocks[1].id
    /\ inFlight = {toolUseBlocks[2].id}

-----------------------------------------------------------------------------
(* A query whose external calls all settle: processUserQuery takes its next *)
(* step as long as it has not ended                                         *)

QueryPositions ==
    LimitPositions \cup {"idle", "attempt", "catch", "handleLLMResponse", "callTool", "thrown",
                         "resolved", "rejected"}

QueryEnded == Resolved \/ Rejected

\* the query moves on: every step of NextQuery changes the position or the calls in
\* flight, and in every state but the last one of them can be taken
AdvanceQuery ==
    /\ ~QueryEnded
    /\ pc' \in QueryPositions
    /\ inFlight' \in {{}} \cup {{toolUseBlocks[i].id} : i \in DOMAIN toolUseBlocks}
    /\ <<pc', inFlight'>> # <<pc, inFlight>>

SpecQueryFair == SpecQuery /\ WF_<<pc, inFlight>>(AdvanceQuery)

\* the guards of the steps of NextQuery, position by position
CanStep ==
    \/ pc \in {"idle", "createMessageWithRetry", "ensureContextWindowLimit", "while", "ensured",
                "catch", "handleLLMResponse", "thrown"}
    \/ pc \in {"countFirst", "countAgain"} /\ countTokens(conversation) # {}
    \/ pc = "attempt" /\ attempt <= maxRetries
    \/ pc = "callTool" /\ inFlight # {}
    \/ pc = "callTool" /\ Awaited /\ Reached < Len(toolUseBlocks)
    \/ pc = "callTool" /\ Len(userToolResultsMessage) = Len(toolUseBlocks)

(* C28: every query terminates when each external call returns or fails:    *)
(* the round counter grows by one per round, no round of tools starts once  *)
(* it has reached maxNumberOfToolCallsPerQuery, so at most that many plus   *)
(* one responses are handled, and the query ends resolved, on a response    *)
(* without a tool_use block to call, or rejected with the error.            *)
QueryTerminates ==
    /\ <>QueryEnded
    /\ [](~QueryEnded => CanStep)
    /\ [](Len(received) <= maxNumberOfToolCallsPerQueryRound + 1)
    /\ [](toolCallCountRound <= maxNumberOfToolCallsPerQueryRound)
    /\ [][toolCallCountRound' # toolCallCountRound
             => /\ toolCallCountRound' = toolCallCountRound + 1
                /\ pc = "callTool"
                /\ pc' = "createMessageWithRetry"]_vars
    /\ [][pc # "callTool" /\ pc' = "callTool"
             => toolCallCountRound < maxNumberOfToolCallsPerQueryRound]_vars
    /\ [][pc # "resolved" /\ pc' = "resolved"
             => pc = "handleLLMResponse" /\ toolUseBlocks' = <<>>]_vars
    /\ [][pc # "rejected" /\ pc' = "rejected" => pc = "thrown" /\ thrown' # Null]_vars
    /\ [][QueryEnded => UNCHANGED vars]_vars

\* the query ended at the limit: a round of tools, then a response with a tool_use block
QueryTerminatesWitness ==
    /\ Resolved
    /\ toolCallCountRound = maxNumberOfToolCallsPerQueryRound
    /\ Len(received) = maxNumberOfToolCallsPerQueryRound + 1
    /\ Len(called) = 2
    /\ ToolUsesOf(received[2]) # <<>>
    /\ waited # <<>>

-----------------------------------------------------------------------------
\* a message as the repair builds it: tool_use blocks of the unknown tool, or
\* tool_result blocks that say the tool_use had no result
IsSynthetic(message) ==
    /\ Items(message) # <<>>
    /\ \/ /\ message.role = "assistant"
          /\ \A j \in DOMAIN Items(message) :
                 /\ Items(message)[j].type = "tool_use"
                 /\ Items(message)[j] = ToolUseBlock(Items(message)[j].id, UNKNOWN_TOOL, EMPTY_INPUT)
       \/ /\ message.role = "user"
          /\ \A j \in DOMAIN Items(message) :
                 /\ Items(message)[j].type = "tool_result"
                 /\ Items(message)[j] = DummyToolResultBlock(Items(message)[j].tool_use_id)

WithoutSynthetic(conv) == SelectSeq(conv, LAMBDA message : ~IsSynthetic(message))

\* the field of a block that holds its content
ContentField(block) == IF block.type = "text" THEN "text" ELSE "content"

\* block after is block before with the placeholder as its content and every
\* other field as it was
RedactedKeepingFields(before, after) ==
    /\ before.type \in {"text", "tool_result"}
    /\ DOMAIN after = DOMAIN before
    /\ \A field \in DOMAIN before \ {ContentField(before)} : after[field] = before[field]
    /\ IF before.type = "text"
       THEN after.text = IMAGE_BASE64_PLACEHOLDER
       ELSE after.content = Str(IMAGE_BASE64_PLACEHOLDER)

(* C31: when pruneAndFixConversation replaces the content of a block with   *)
(* the placeholder, every other field of the block is kept (tool_use_id,    *)
(* is_error and cache_control of a tool_result, cache_control and citations *)
(* of a text block), and the role of the message and the position of the    *)
(* block in it are unchanged.                                               *)
RedactionKeepsOtherFields ==
    Returned =>
        LET kept == WithoutSynthetic(pruned)
        IN  /\ Len(kept) = Len(conversation)
            /\ \A i \in DOMAIN conversation :
                   /\ kept[i].role = conversation[i].role
                   /\ kept[i].content.typeof = conversation[i].content.typeof
                   /\ Len(Items(kept[i])) = Len(Items(conversation[i]))
                   /\ \A j \in DOMAIN Items(conversation[i]) :
                          \/ Items(kept[i])[j] = Items(conversation[i])[j]
                          \/ RedactedKeepingFields(Items(conversation[i])[j], Items(kept[i])[j])

\* a tool_result and a text block redacted at the second and third place of a message
RedactionKeepsOtherFieldsWitness ==
    /\ Returned
    /\ Len(Items(conversation[2])) = 3
    /\ Items(pruned[2])[1] = Items(conversation[2])[1]
    /\ Items(pruned[2])[2] # Items(conversation[2])[2]
    /\ Items(pruned[2])[2].is_error = "true"
    /\ Items(pruned[2])[2].cache_control = "ephemeral"
    /\ Items(pruned[2])[2].tool_use_id = "a"
    /\ Items(pruned[2])[3].text = IMAGE_BASE64_PLACEHOLDER
    /\ Items(conversation[2])[3].text # IMAGE_BASE64_PLACEHOLDER
    /\ Items(pruned[2])[3].citations = "cited"

-----------------------------------------------------------------------------
(* C34: pruneAndFixConversation only inserts messages: its argument is left *)
(* as it was, and the result without the inserted messages has the messages *)
(* of the argument, in their order, with their roles, blocks and ids, the   *)
(* contents equal up to the placeholder; nothing is dropped, reordered or   *)
(* duplicated.                                                              *)
RepairOnlyInserts ==
    /\ [][pc = "call" => conversation' = conversation]_vars
    /\ [](Returned =>
             LET kept == WithoutSynthetic(pruned)
             IN  /\ Len(kept) = Len(conversation)
                 /\ \A i \in DOMAIN conversation : MessageUpToRedaction(conversation[i], kept[i])
                 /\ \A i \in DOMAIN conversation : ~IsSynthetic(conversation[i]))

\* a dummy tool_use message and a dummy tool_result message were inserted and a string
\* was replaced
RepairOnlyInsertsWitness ==
    /\ Returned
    /\ Len(conversation) = 3
    /\ Len(pruned) = 5
    /\ conversation[3].content = Str(Base64Text)
    /\ pruned[5].content = Str(IMAGE_BASE64_PLACEHOLDER)
    /\ OrphanedResultIdsAt(conversation, 1) # <<>>
    /\ OrphanedUseIdsAt(conversation, 2) # <<>>

-----------------------------------------------------------------------------
IsSuffix(tail, seq) ==
    /\ Len(tail) <= Len(seq)
    /\ tail = SubSeq(seq, Len(seq) - Len(tail) + 1, Len(seq))

\* ensureContextWindowLimit is running or has returned
InEnsure == pc \in {"ensureContextWindowLimit", "countFirst", "while", "countAgain", "ensured"}

(* C35: ensureContextWindowLimit removes messages only from the front and   *)
(* never the most recent one: for every conversation that is not empty and  *)
(* every count, the last message on entry is the last message on return,    *)
(* and the messages that remain are a suffix of those on entry, with the    *)
(* dummy messages of the repair among them.                                 *)
EvictsFromTheFrontOnly ==
    /\ [](InEnsure /\ entry # <<>>
             => /\ conversation # <<>>
                /\ Last(conversation) = Last(entry)
                /\ ~IsSynthetic(Last(conversation))
                /\ IsSuffix(WithoutSynthetic(conversation), WithoutSynthetic(entry)))
    /\ [][(pc \in {"while", "countAgain", "countFirst"})
             => IsSuffix(WithoutSynthetic(conversation'), WithoutSynthetic(conversation))]_vars

\* three of five messages were evicted and the repair put a dummy message before the
\* last one, which is the one of the entry
EvictsFromTheFrontOnlyWitness ==
    /\ Ensured
    /\ Len(entry) = 5
    /\ Len(conversation) = 2
    /\ IsSynthetic(conversation[1])
    /\ conversation[2] = entry[5]
    /\ currentTokens <= maxContextTokens

-----------------------------------------------------------------------------
(* getConversation as an operation: the view of a drawn conversation is     *)
(* persisted, and the manager of the next run is constructed on it          *)

FlattenBlocks ==
    RepairBlocks \cup {TextBlock(<<>>, Undefined, Undefined), ImageBlock(Base64Text)}

DrawFlattenInput(value) ==
    \E len \in 0..MaxLen :
        \E counts \in [1..len -> 0..MaxBlocks] :
            /\ Sum(counts, len) <= MaxBlocks
            /\ \E roles \in [1..len -> Roles] :
                   \E blocks \in [1..Sum(counts, len) -> FlattenBlocks] :
                       \E texts \in [{i \in 1..len : counts[i] = 0} -> {PlainText, <<>>}] :
                           value = Assemble(roles, counts, blocks, texts)

InitFlatten ==
    /\ DrawFlattenInput(conversation)
    /\ pruned = <<>>
    /\ pc = "getConversation"
    /\ currentTokens = 0
    /\ maxContextTokens = WithSafetyMargin(DEFAULT_MAX_CONTEXT_TOKENS)
    /\ entry = <<>>
    /\ InitLoop
    /\ InitHost
    /\ estimates = {}
    /\ inFlight = {}
    /\ InitSSE

\* Actor.setValue(CONVERSATION_RECORD_NAME, conversationManager.getConversation())
PersistView ==
    /\ pc = "getConversation"
    /\ record' = getConversation(conversation)
    /\ pc' = "persisted"
    /\ UNCHANGED <<conversation, pruned, currentTokens, maxContextTokens, entry>>
    /\ UNCHANGED <<loopVars, envVars, handlers, actorInput>>

\* the next run: the record is read and the manager is constructed on it
RestoreView ==
    /\ pc = "persisted"
    /\ conversation' = NewConversation(record)
    /\ pc' = "restored"
    /\ UNCHANGED <<pruned, currentTokens, maxContextTokens, entry>>
    /\ UNCHANGED <<loopVars, hostVars, envVars>>

NextFlatten == PersistView \/ RestoreView

SpecFlatten == InitFlatten /\ [][NextFlatten]_vars

\* the places of a conversation that the view shows: <<i, 0>> for the string of message
\* i, <<i, j>> for its text, tool_use or tool_result block j
ShownPlaces(conv) ==
    {<<i, 0>> : i \in {m \in DOMAIN conv : conv[m].content.typeof = "string"}}
    \cup {place \in (DOMAIN conv) \X (1..MaxBlocks) :
             /\ place[2] \in DOMAIN Items(conv[place[1]])
             /\ Items(conv[place[1]])[place[2]].type \in {"text", "tool_use", "tool_result"}}

Before(p, q) == p[1] < q[1] \/ (p[1] = q[1] /\ p[2] < q[2])

\* the position of a place among the shown places, in the order of the conversation
Rank(conv, place) == Cardinality({q \in ShownPlaces(conv) : Before(q, place)}) + 1

\* what the view holds for a place
EntryOf(conv, place) ==
    LET message == conv[place[1]]
    IN  IF place[2] = 0 THEN message
        ELSE LET block == Items(message)[place[2]]
             IN  IF block.type = "text"
                 THEN Message(message.role, Str(block.text))
                 ELSE Message(message.role, Arr(<<block>>))

(* C37: flattening is idempotent and keeps the order: getConversation on a  *)
(* conversation built from a view returns that view, and the view lists the *)
(* strings and the text, tool_use and tool_result blocks of the             *)
(* conversation in their order with the role of their message, one per      *)
(* entry, so a view that is persisted, restored and flattened again is the  *)
(* same view.                                                               *)
FlattenIsIdempotent ==
    /\ [](pc = "persisted"
             => /\ Len(record) = Cardinality(ShownPlaces(conversation))
                /\ \A place \in ShownPlaces(conversation) :
                       record[Rank(conversation, place)] = EntryOf(conversation, place)
                /\ getConversation(record) = record)
    /\ [](pc = "restored" => conversation = record /\ getConversation(conversation) = record)
    /\ [][pc = "getConversation" => conversation' = conversation]_vars

\* a view of four entries restored: the second message held a text, an image and a
\* tool_use block
FlattenIsIdempotentWitness ==
    /\ pc = "restored"
    /\ Len(record) = 4
    /\ record[1].content.typeof = "string"
    /\ record[2].content = Str(PlainText)
    /\ Items(record[3]) # <<>>
    /\ Items(record[3])[1].type = "tool_use"
    /\ record[2].role = record[3].role
    /\ Items(record[4]) # <<>>
    /\ Items(record[4])[1].type = "tool_result"

-----------------------------------------------------------------------------
\* the index of the message of the query: the last user message that is a string
QueryTurn ==
    LET strings == {i \in DOMAIN conversation :
                       conversation[i].role = "user" /\ conversation[i].content.typeof = "string"}
    IN  IF strings = {} THEN 0 ELSE CHOOSE i \in strings : \A k \in strings : k <= i

\* the messages pushed after the message of the query
Appended == SubSeq(conversation, QueryTurn + 1, Len(conversation))

\* nothing was evicted and the repair inserted nothing: the conversation begins with a
\* history and the query, and holds no dummy message
Undisturbed ==
    /\ \E history \in QueryHistories : SubSeq(conversation, 1, QueryTurn - 1) = history
    /\ \A i \in DOMAIN conversation : ~IsSynthetic(conversation[i])

(* C36: for a query without eviction, redaction and repair insertion the    *)
(* calls of sseEmit are, in order, the flattened view (getConversation) of  *)
(* the messages pushed after the message of the query, when the query       *)
(* resolves, when it ends at the round limit and when it is rejected.       *)
EmitsAreTheFlattenedView ==
    QueryEnded /\ Undisturbed => emitted = getConversation(Appended)

-----------------------------------------------------------------------------
(* The browser on the SSE stream while a query runs: GET /sse and the close *)
(* of its request                                                           *)

\* most browser clients that connect in a run
MaxBrowserClients == 2

\* main.ts nextClientId: the ids are given in the order of the connections
nextClientId == Len(written) + 1

\* GET /sse: the client gets the next id and is pushed to browserClients
ConnectBrowser ==
    /\ nextClientId <= MaxBrowserClients
    /\ browserClients' = browserClients \cup {nextClientId}
    /\ written' = Append(written, <<>>)
    /\ UNCHANGED <<limitVars, loopVars, hostVars, estimates, inFlight, broadcasts>>

\* the close of the stream that also gives up the calls in flight
DisconnectBrowserAbandonsCalls ==
    /\ \E clientId \in browserClients : browserClients' = browserClients \ {clientId}
    /\ inFlight' = {}
    /\ UNCHANGED <<limitVars, loopVars, hostVars, estimates, broadcasts, written>>

\* req.on('close'): the client is filtered out of browserClients
DisconnectBrowser ==
    /\ \E clientId \in browserClients : browserClients' = browserClients \ {clientId}
    /\ UNCHANGED <<limitVars, loopVars, hostVars, estimates, inFlight, broadcasts, written>>

NextDisconnect == NextQuery \/ ConnectBrowser \/ DisconnectBrowser

SpecDisconnect == InitQuery /\ [][NextDisconnect]_vars /\ WF_<<pc, inFlight>>(AdvanceQuery)

\* no browser is connected any more
Disconnected == browserClients = {} /\ nextClientId > 1

\* the message of the results of the round is the last of the conversation
ResultsInConversation ==
    /\ conversation # <<>>
    /\ Last(conversation) = Message("user", Arr(userToolResultsMessage))
    /\ Len(userToolResultsMessage) = Len(toolUseBlocks)

(* C32: once callTool has been called its result is pushed to the           *)
(* conversation when it arrives, also when the browser has closed its SSE   *)
(* stream in the meantime: a disconnect at any point of a query leaves the  *)
(* state of the query as it is, and the query goes on to its end.           *)
DisconnectDoesNotCancel ==
    /\ [][browserClients' # browserClients
             => UNCHANGED <<limitVars, loopVars, hostVars, estimates, inFlight>>]_vars
    /\ [][inFlight # {} /\ inFlight' = {}
             => /\ Len(userToolResultsMessage') = Len(userToolResultsMessage) + 1
                /\ Last(userToolResultsMessage').tool_use_id \in inFlight
                /\ Len(called') = Len(called) + 1]_vars
    /\ [][pc = "callTool" /\ pc' # "callTool" => ResultsInConversation']_vars
    /\ (inFlight # {} /\ Disconnected) ~> (pc = "createMessageWithRetry" /\ ResultsInConversation)
    /\ <>QueryEnded

\* the only browser closed its stream while the second call of a round was in
\* flight, and the message of both results is in the conversation
DisconnectDoesNotCancelWitness ==
    /\ pc = "createMessageWithRetry"
    /\ ResultsInConversation
    /\ Len(userToolResultsMessage) = 2
    /\ Disconnected
    /\ nextClientId = 2
    /\ Len(emitted) >= 3

-----------------------------------------------------------------------------
(* The SSE layer of POST /message: every call of sseEmit is a call of       *)
(* broadcastSSE that nobody awaits                                          *)

\* the stages of one call of broadcastSSE: awaiting Actor.pushData, awaiting
\* Actor.setValue, and written to the clients
Stages == <<"pushData", "setValue", "written">>

\* a call of broadcastSSE starts with the call of Actor.pushData
Stage(key) == IF key \in DOMAIN broadcasts THEN broadcasts[key] ELSE Stages[1]

\* the call of broadcastSSE with this key moves on to the given stage
Staged(key, stage) ==
    [k \in 1..(IF key > Len(broadcasts) THEN key ELSE Len(broadcasts)) |->
        IF k = key THEN stage ELSE Stage(k)]

\* the key of POST /message's last broadcast, which follows the emits
finishedKey == Len(emitted) + 1

\* the calls of broadcastSSE made so far: one for each call of sseEmit, and
\* the one of the finished flag
Broadcasts == 1..(IF pc \in {"broadcastSSE", "responded"} THEN finishedKey ELSE Len(emitted))

\* the data of a call: conversationCounter.increment() gives the keys in the
\* order of the calls of sseEmit
Data(key) ==
    IF key = finishedKey
    THEN [role |-> "system", finished |-> TRUE]
    ELSE [role |-> emitted[key].role, content |-> emitted[key].content, key |-> key]

\* browserClients.forEach(c => c.res.write(message))
WriteToClients(data) ==
    [clientId \in DOMAIN written |->
        IF clientId \in browserClients THEN Append(written[clientId], data)
        ELSE written[clientId]]

\* await Actor.pushData(data) settles; Actor.setValue is called with the
\* conversation of that moment
BroadcastPushData ==
    \E key \in Broadcasts :
        /\ Stage(key) = "pushData"
        /\ broadcasts' = Staged(key, "setValue")
        /\ record' = getConversation(conversation)
        /\ UNCHANGED <<limitVars, loopVars, handlers, actorInput, estimates, inFlight,
                       browserClients, written>>

\* await Actor.setValue settles and the message is written to every client;
\* after the broadcast of the finished flag POST /message responds
BroadcastSetValue ==
    \E key \in Broadcasts :
        /\ Stage(key) = "setValue"
        /\ broadcasts' = Staged(key, "written")
        /\ written' = WriteToClients(Data(key))
        /\ pc' = IF key = finishedKey /\ pc = "broadcastSSE" THEN "responded" ELSE pc
        /\ UNCHANGED <<limitVarsButPc,
                       loopVars, hostVars, estimates, inFlight, browserClients>>

\* processUserQuery has settled: (after Actor.charge, in the catch without it)
\* POST /message calls broadcastSSE with the finished flag
BroadcastFinished ==
    /\ pc \in {"resolved", "rejected"}
    /\ pc' = "broadcastSSE"
    /\ UNCHANGED <<limitVarsButPc,
                   loopVars, hostVars, envVars>>

\* most calls of sseEmit in a query
MaxEmits == 3

\* POST /message with a query: processUserQuery is called with the callback
QueryStarts ==
    /\ pc = "idle"
    /\ pc' = "processUserQuery"
    /\ UNCHANGED <<limitVarsButPc, loopVars, hostVars, envVars>>

\* the callback POST /message passes as sseEmit: the query calls it without
\* await, so it returns to the query at its own await of Actor.pushData
SseEmit ==
    /\ pc = "processUserQuery"
    /\ Len(emitted) < MaxEmits
    /\ \E role \in {"assistant", "user"} :
           emitted' = Append(emitted, Emit(role, Str(PlainText)))
    /\ UNCHANGED <<limitVars, maxNumberOfToolCallsPerQueryRound, toolCallCountRound,
                   response, toolUseBlocks, userToolResultsMessage, maxRetries,
                   retryDelayMs, attempt, lastError, thrown, called, received, waited,
                   created, hostVars, envVars>>

\* await conversationManager.processUserQuery(...) settles
QuerySettles ==
    /\ pc = "processUserQuery"
    /\ pc' \in {"resolved", "rejected"}
    /\ UNCHANGED <<limitVarsButPc, loopVars, hostVars, envVars>>

NextSSE ==
    \/ QueryStarts
    \/ SseEmit
    \/ QuerySettles
    \/ ConnectBrowser
    \/ DisconnectBrowser
    \/ BroadcastFinished
    \/ BroadcastPushData
    \/ BroadcastSetValue

SpecSSE == InitQuery /\ [][NextSSE]_vars

\* the message of the finished flag
IsFinished(data) == "finished" \in DOMAIN data

(* C33: the SSE layer delivers the emitted events in call order: of two     *)
(* calls of sseEmit of a query the event of the earlier one is written to   *)
(* each connected browser before the event of the later one, and the        *)
(* finished event of the query is written after every content event of it.  *)
DeliveredInCallOrder ==
    \A clientId \in DOMAIN written :
        \A i, j \in DOMAIN written[clientId] :
            i < j =>
                LET earlier == written[clientId][i]
                    later == written[clientId][j]
                IN  /\ ~IsFinished(earlier)
                    /\ ~IsFinished(later) => earlier.key < later.key

-----------------------------------------------------------------------------
(* POST /conversation/reset while a query is under way                      *)

\* the query is suspended at an await: a tool call is in flight, a count of
\* tokens has been awaited (the position after it, whose continuation reads
\* this.conversation anew), or messages.create or the wait before a retry has
\* been awaited
AtAwait ==
    \/ pc = "callTool" /\ inFlight # {}
    \/ pc = "while"
    \/ pc = "ensured" /\ Len(entry) > MIN_CONVERSATION_LENGTH
    \/ pc \in {"handleLLMResponse", "catch"}

\* ConversationManager.resetConversation: this.conversation = []
resetConversation(conv) == <<>>

\* POST /conversation/reset served while the query awaits: the conversation is
\* emptied and persisted
ResetDuringQuery ==
    /\ AtAwait
    /\ conversation # <<>>
    /\ conversation' = resetConversation(conversation)
    /\ record' = getConversation(conversation')
    /\ UNCHANGED <<pruned, pc, currentTokens, maxContextTokens, entry>>
    /\ UNCHANGED <<loopVars, envVars, handlers, actorInput>>

NextReset == NextQuery \/ ResetDuringQuery

SpecReset == InitRun /\ [][NextReset]_vars

\* the conversation starts with the assistant turn of the round: the reset came
\* while its completion call was awaited and took the query away
StartsWithTheRound ==
    /\ Len(conversation) = 2
    /\ conversation[1].role = "assistant"
    /\ ~IsSynthetic(conversation[1])
    /\ IdsAt(conversation, 1, "tool_use") # {}
    /\ IdsAt(conversation, 2, "tool_result") = IdsAt(conversation, 1, "tool_use")

(* C38: when resetConversation runs at a suspend point of a query under way *)
(* (during a tool call, a token estimate, a retry wait or a completion      *)
(* call), every conversation sent to the completion service afterwards      *)
(* still has no tool_result without a matching tool_use and no tool_use     *)
(* outside its last turn without a matching tool_result.                    *)
ResetKeepsSentConversationPaired ==
    /\ [][conversation' = <<>> /\ conversation # <<>> => pc' = pc /\ AtAwait]_vars
    /\ [](Sent => Paired(conversation))

\* the conversation was reset while the first completion call of the query was
\* awaited: the second call is sent the round of the tools without the query
ResetKeepsSentConversationPairedWitness ==
    /\ Sent
    /\ StartsWithTheRound
    /\ Len(received) = 1
    /\ Len(called) >= 1

====
